---- MODULE Spec2Model ----
(***************************************************************************)
(* QuestionService of the Finance-IT app (src/unnamed/part_000): the fixed *)
(* MCQ pool, the numeric question templates, the selector getNextQuestion  *)
(* with its anti-repeat state lastQuestionId, and the batch producer       *)
(* getQuestionBatch.                                                       *)
(*                                                                         *)
(* Numbers.  A JavaScript number that the service reports (correctAnswer,  *)
(* tolerance) is held as an integer count of ten-thousandths: 1.0 is       *)
(* FixedScale.  Two-decimal answers and their 1% tolerances are exact in   *)
(* this unit.  Intermediate values of the formulas are IEEE-754 binary64   *)
(* doubles [ m, e ] of value m * 2^e, rounded to the nearest after every   *)
(* operation; Math.pow returns any double near enough to the exact power.  *)
(* The real-number value of a formula is an exact rational.                *)
(*                                                                         *)
(* Math.random() is a draw u in 0 .. RandDen-1 standing for u / RandDen.   *)
(* Date.now() is the variable now, in milliseconds since module load.      *)
(***************************************************************************)
EXTENDS Integers, Sequences, FiniteSets, TLC

\* ------------------------------------------------------------------ bounds
\* Largest explicit count passed to getQuestionBatch.
MaxCount == 3
\* Largest value the millisecond clock reaches.
MaxClock == 1
\* Resolution of a Math.random() draw.
RandDen == 12
\* The loop-iteration counter rolls saturates here.
MaxRolls == 3
PairCount == 2

\* The null reference.
Null == "null"

\* Mutant: a pool in which the correct option of an entry is its last one.
MCQ_POOL_LastOption ==
  <<
    [ id |-> "mcq-1", type |-> "mcq",
      question |-> "If interest rates rise, what typically happens to bond prices?",
      options |-> << "They increase",
                     "They stay the same",
                     "They become volatile",
                     "They decrease" >>,
      correctIndex |-> 3 ],
    [ id |-> "mcq-2", type |-> "mcq",
      question |-> "What does \"diversification\" primarily help reduce?",
      options |-> << "Tax liability",
                     "Unsystematic risk",
                     "Inflation",
                     "Transaction costs" >>,
      correctIndex |-> 1 ]
  >>

\* --------------------------------------------------------------- MCQ pool
MCQ_POOL ==
  <<
    [ id |-> "mcq-1", type |-> "mcq",
      question |-> "If interest rates rise, what typically happens to bond prices?",
      options |-> << "They increase",
                     "They decrease",
                     "They stay the same",
                     "They become volatile" >>,
      correctIndex |-> 1 ],
    [ id |-> "mcq-2", type |-> "mcq",
      question |-> "What does \"diversification\" primarily help reduce?",
      options |-> << "Tax liability",
                     "Unsystematic risk",
                     "Inflation",
                     "Transaction costs" >>,
      correctIndex |-> 1 ],
    [ id |-> "mcq-3", type |-> "mcq",
      question |-> "Which financial statement shows a company's revenues and expenses?",
      options |-> << "Balance Sheet",
                     "Cash Flow Statement",
                     "Income Statement",
                     "Statement of Equity" >>,
      correctIndex |-> 2 ],
    [ id |-> "mcq-4", type |-> "mcq",
      question |-> "What is the \"Rule of 72\" used to estimate?",
      options |-> << "Time to double an investment",
                     "Maximum portfolio loss",
                     "Optimal asset allocation",
                     "Tax deductions" >>,
      correctIndex |-> 0 ],
    [ id |-> "mcq-5", type |-> "mcq",
      question |-> "A P/E ratio compares a stock's price to its:",
      options |-> << "Revenue",
                     "Earnings per share",
                     "Dividends",
                     "Book value" >>,
      correctIndex |-> 1 ],
    [ id |-> "mcq-6", type |-> "mcq",
      question |-> "Which type of fund typically has the lowest management fees?",
      options |-> << "Hedge fund",
                     "Mutual fund",
                     "Index fund",
                     "Private equity fund" >>,
      correctIndex |-> 2 ],
    [ id |-> "mcq-7", type |-> "mcq",
      question |-> "What does GDP stand for?",
      options |-> << "Gross Domestic Product",
                     "General Domestic Pricing",
                     "Growth Demand Percentage",
                     "Gross Demand Profit" >>,
      correctIndex |-> 0 ],
    [ id |-> "mcq-8", type |-> "mcq",
      question |-> "What is a \"bear market\"?",
      options |-> << "A market rising by 20% or more",
                     "A market declining by 20% or more",
                     "A market with high volatility",
                     "A market with low trading volume" >>,
      correctIndex |-> 1 ],
    [ id |-> "mcq-9", type |-> "mcq",
      question |-> "Which asset is generally considered the safest?",
      options |-> << "Corporate bonds",
                     "Stocks",
                     "U.S. Treasury bills",
                     "Cryptocurrency" >>,
      correctIndex |-> 2 ],
    [ id |-> "mcq-10", type |-> "mcq",
      question |-> "Compound interest differs from simple interest because it:",
      options |-> << "Uses a lower rate",
                     "Is calculated only annually",
                     "Earns interest on accumulated interest",
                     "Applies only to savings accounts" >>,
      correctIndex |-> 2 ],
    [ id |-> "mcq-11", type |-> "mcq",
      question |-> "What does an ETF stand for?",
      options |-> << "Electronic Transfer Fund",
                     "Exchange-Traded Fund",
                     "Equity Trust Fund",
                     "Estimated Tax Filing" >>,
      correctIndex |-> 1 ],
    [ id |-> "mcq-12", type |-> "mcq",
      question |-> "Inflation causes the purchasing power of money to:",
      options |-> << "Increase",
                     "Decrease",
                     "Remain unchanged",
                     "Fluctuate randomly" >>,
      correctIndex |-> 1 ]
  >>

\* ------------------------------------------------- arbitrary-precision naturals
\* A natural number as its little-endian sequence of base-BigBase limbs; << >> is 0.
BigBase == 2 ^ 15

\* e, once v has been evaluated (keeps the evaluation of long products shallow).
Force(v, e) == IF v = v THEN e ELSE e

RECURSIVE BigFromNat(_)
BigFromNat(n) ==
  IF n = 0 THEN << >> ELSE << n % BigBase >> \o BigFromNat(n \div BigBase)

RECURSIVE BigToNat(_)
BigToNat(a) ==
  IF a = << >> THEN 0 ELSE Head(a) + BigBase * BigToNat(Tail(a))

RECURSIVE BigTrim(_)
BigTrim(a) ==
  IF a # << >> /\ a[Len(a)] = 0 THEN BigTrim(SubSeq(a, 1, Len(a) - 1)) ELSE a

\* The limb operations below work on a range i .. j of limbs and split it in
\* halves, so that their evaluation nests only logarithmically deep.  Each
\* returns the limbs of the result followed by the carry (borrow, remainder) left.
Limbs(r) == SubSeq(r, 1, Len(r) - 1)
CarryOf(r) == r[Len(r)]

RECURSIVE BigMulRange(_, _, _, _, _)
BigMulRange(a, m, i, j, carry) ==
  IF i > j THEN << carry >>
  ELSE IF i = j
    THEN << (a[i] * m + carry) % BigBase, (a[i] * m + carry) \div BigBase >>
  ELSE LET mid == (i + j) \div 2
           lo == BigMulRange(a, m, i, mid, carry)
       IN  Force(lo, Limbs(lo) \o BigMulRange(a, m, mid + 1, j, CarryOf(lo)))

\* a * m for a natural m <= BigBase.
BigMulSmall(a, m) ==
  LET r == BigMulRange(a, m, 1, Len(a), 0)
  IN  BigTrim(Limbs(r) \o BigFromNat(CarryOf(r)))

\* Limb i of a, 0 beyond its length.
LimbAt(a, i) == IF i > Len(a) THEN 0 ELSE a[i]

RECURSIVE BigAddRange(_, _, _, _, _)
BigAddRange(a, b, i, j, carry) ==
  IF i > j THEN << carry >>
  ELSE IF i = j
    THEN << (LimbAt(a, i) + LimbAt(b, i) + carry) % BigBase,
            (LimbAt(a, i) + LimbAt(b, i) + carry) \div BigBase >>
  ELSE LET mid == (i + j) \div 2
           lo == BigAddRange(a, b, i, mid, carry)
       IN  Force(lo, Limbs(lo) \o BigAddRange(a, b, mid + 1, j, CarryOf(lo)))

BigAdd(a, b) ==
  LET n == IF Len(a) > Len(b) THEN Len(a) ELSE Len(b)
      r == BigAddRange(a, b, 1, n, 0)
  IN  BigTrim(Limbs(r) \o BigFromNat(CarryOf(r)))

RECURSIVE BigSubRange(_, _, _, _, _)
BigSubRange(a, b, i, j, borrow) ==
  IF i > j THEN << borrow >>
  ELSE IF i = j
    THEN << (a[i] - LimbAt(b, i) - borrow + BigBase) % BigBase,
            IF a[i] - LimbAt(b, i) - borrow < 0 THEN 1 ELSE 0 >>
  ELSE LET mid == (i + j) \div 2
           lo == BigSubRange(a, b, i, mid, borrow)
       IN  Force(lo, Limbs(lo) \o BigSubRange(a, b, mid + 1, j, CarryOf(lo)))

\* a - b, for a >= b.
BigSub(a, b) == BigTrim(Limbs(BigSubRange(a, b, 1, Len(a), 0)))

RECURSIVE BigDivRange(_, _, _, _, _)
\* Long division of limbs j down to i by d, entered with remainder rem.
BigDivRange(a, d, i, j, rem) ==
  IF i > j THEN << rem >>
  ELSE IF i = j
    THEN << (rem * BigBase + a[i]) \div d, (rem * BigBase + a[i]) % d >>
  ELSE LET mid == (i + j) \div 2
           hi == BigDivRange(a, d, mid + 1, j, rem)
           lo == BigDivRange(a, d, i, mid, CarryOf(hi))
       IN  Force(hi, Force(lo, Limbs(lo) \o Limbs(hi) \o << CarryOf(lo) >>))

\* floor(a / d) for a natural 0 < d < BigBase.
BigDivSmall(a, d) == BigTrim(Limbs(BigDivRange(a, d, 1, Len(a), 0)))

RECURSIVE BigMulTimes(_, _, _)
\* a * m^k.
BigMulTimes(a, m, k) ==
  IF k = 0 THEN a
  ELSE IF k = 1 THEN BigMulSmall(a, m)
  ELSE LET half == BigMulTimes(a, m, k \div 2)
       IN  Force(half, BigMulTimes(half, m, k - (k \div 2)))

RECURSIVE BigDivTimes(_, _, _)
\* floor(a / d^k).
BigDivTimes(a, d, k) ==
  IF k = 0 THEN a
  ELSE IF k = 1 THEN BigDivSmall(a, d)
  ELSE LET half == BigDivTimes(a, d, k \div 2)
       IN  Force(half, BigDivTimes(half, d, k - (k \div 2)))

\* m^k.
BigPowSmall(m, k) == BigMulTimes(<< 1 >>, m, k)

\* A non-negative rational num / (d1^k1 * d2^k2): num a Big natural, the
\* divisors small naturals.
Rat(num, d1, k1, d2, k2) == [num |-> num, d1 |-> d1, k1 |-> k1, d2 |-> d2, k2 |-> k2]

\* Math.round(x * 100) of the rational x: floor(100 * x + 1/2); a half rounds up.
RoundHundredfold(x) ==
  LET den == BigMulTimes(BigMulTimes(<< 1 >>, x.d1, x.k1), x.d2, x.k2)
      twice == BigAdd(BigMulSmall(x.num, 200), den)
      q1 == BigDivTimes(twice, x.d1, x.k1)
      q2 == BigDivTimes(q1, x.d2, x.k2)
  IN  Force(den, Force(twice, Force(q1, Force(q2, BigToNat(BigDivSmall(q2, 2))))))

\* ---- general products, quotients and shifts
RECURSIVE BigCmpAt(_, _, _)
BigCmpAt(a, b, i) ==
  IF i = 0 THEN 0
  ELSE IF a[i] < b[i] THEN 0 - 1
  ELSE IF a[i] > b[i] THEN 1
  ELSE BigCmpAt(a, b, i - 1)

\* -1, 0, 1 as a < b, a = b, a > b.
BigCmp(a, b) ==
  IF Len(a) < Len(b) THEN 0 - 1
  ELSE IF Len(a) > Len(b) THEN 1
  ELSE BigCmpAt(a, b, Len(a))

\* a * BigBase^j.
BigShiftLimbs(a, j) ==
  IF a = << >> THEN << >> ELSE [ k \in 1 .. j |-> 0 ] \o a

RECURSIVE BigMulLimbs(_, _, _, _)
\* a * (limbs i .. j of b, in their places).
BigMulLimbs(a, b, i, j) ==
  IF i > j THEN << >>
  ELSE IF i = j THEN BigShiftLimbs(BigMulSmall(a, b[i]), i - 1)
  ELSE LET mid == (i + j) \div 2
           lo == BigMulLimbs(a, b, i, mid)
           hi == BigMulLimbs(a, b, mid + 1, j)
       IN  Force(lo, Force(hi, BigAdd(lo, hi)))

\* a * b.
BigMul(a, b) == BigMulLimbs(a, b, 1, Len(b))

RECURSIVE BitLen(_)
\* The number of binary digits of a natural below BigBase.
BitLen(n) == IF n = 0 THEN 0 ELSE 1 + BitLen(n \div 2)

\* The number of binary digits of a.
BigBitLen(a) ==
  IF a = << >> THEN 0 ELSE (Len(a) - 1) * 15 + BitLen(a[Len(a)])

\* a * 2^k.
BigShl(a, k) == BigShiftLimbs(BigMulSmall(a, 2 ^ (k % 15)), k \div 15)

\* floor(a / 2^k).
BigShr(a, k) ==
  IF k \div 15 >= Len(a) THEN << >>
  ELSE BigDivSmall(SubSeq(a, (k \div 15) + 1, Len(a)), 2 ^ (k % 15))

RECURSIVE FindDigit(_, _, _, _)
\* The largest t in lo .. hi with t * d <= r (lo is one).
FindDigit(r, d, lo, hi) ==
  IF lo = hi THEN lo
  ELSE LET mid == (lo + hi + 1) \div 2
       IN  IF BigCmp(BigMulSmall(d, mid), r) <= 0
           THEN FindDigit(r, d, mid, hi)
           ELSE FindDigit(r, d, lo, mid - 1)

RECURSIVE BigDivStep(_, _, _, _, _)
\* Long division of limbs i down to 1 of a by d, entered with remainder rem
\* and the quotient limbs q found so far.
BigDivStep(a, d, i, rem, q) ==
  IF i = 0 THEN [ q |-> BigTrim(q), r |-> rem ]
  ELSE LET cur == BigTrim(<< a[i] >> \o rem)
           t == FindDigit(cur, d, 0, BigBase - 1)
           left == BigSub(cur, BigMulSmall(d, t))
       IN  Force(left, BigDivStep(a, d, i - 1, left, << t >> \o q))

\* Quotient and remainder of a by d > 0.
BigDivMod(a, d) == BigDivStep(a, d, Len(a), << >>, << >>)

\* ------------------------------------------------------- IEEE-754 binary64
\* A positive double is [ m, e ]: the value m * 2^e, with 2^52 <= m < 2^53 held
\* as a natural of limbs.  Every operation is the exact result, rounded to the
\* nearest double, a tie to the even mantissa.
BigOne == << 1 >>

\* The one element of a singleton: a value computed once and then named.
The(S) == CHOOSE v \in S : TRUE

\* The double [ m, e ], m brought back under 2^53 after a carry out of rounding.
Normal(m, e) ==
  The({ IF BigBitLen(v) > 53 THEN [ m |-> BigShr(v, 1), e |-> e + 1 ]
        ELSE [ m |-> v, e |-> e ] : v \in { m } })

\* q * 2^e rounded at its binary digit t, to the nearest, a tie to the even
\* mantissa; q was cut short of the exact value iff sticky.
RoundAt(q, sticky, e, t) ==
  The({ The({ IF half > 0 \/ (half = 0 /\ (sticky \/ m0[1] % 2 = 1))
              THEN Normal(BigAdd(m0, BigOne), e + t)
              ELSE [ m |-> m0, e |-> e + t ] :
              half \in { BigCmp(BigSub(q, BigShl(m0, t)), BigShl(BigOne, t - 1)) } }) :
        m0 \in { BigShr(q, t) } })

\* The double nearest to q * 2^e, q a natural of at least 55 binary digits that
\* was cut short of the exact value iff sticky.
RoundBits(q, sticky, e) == RoundAt(q, sticky, e, BigBitLen(q) - 53)

\* The binary digits n is shifted by for n / d to have at least 55 of them.
Scaling(n, d) ==
  IF 55 + BigBitLen(d) > BigBitLen(n) THEN 55 + BigBitLen(d) - BigBitLen(n) ELSE 0

\* The double nearest to (n / d) * 2^e, n shifted by shift binary digits.
RoundShifted(n, d, e, shift) ==
  The({ RoundBits(qr.q, qr.r # << >>, e - shift) :
        qr \in { IF d = BigOne THEN [ q |-> BigShl(n, shift), r |-> << >> ]
                 ELSE BigDivMod(BigShl(n, shift), d) } })

\* The double nearest to (n / d) * 2^e, for naturals n, d > 0.
RoundRat(n, d, e) ==
  The({ RoundShifted(nv, dv, e, Scaling(nv, dv)) : nv \in { n }, dv \in { d } })

\* The double of a natural n > 0.
ToDouble(n) == RoundRat(BigFromNat(n), BigOne, 0)

\* x * y, x / y.
FMul(x, y) ==
  The({ RoundRat(BigMul(a.m, b.m), BigOne, a.e + b.e) : a \in { x }, b \in { y } })
FDiv(x, y) ==
  The({ RoundRat(a.m, b.m, a.e - b.e) : a \in { x }, b \in { y } })

\* The lesser of two exponents.
Lesser(e, f) == IF e < f THEN e ELSE f

\* x + y, and x - y for x > y: the mantissas at the lesser exponent.
FAdd(x, y) ==
  The({ RoundRat(BigAdd(BigShl(a.m, a.e - Lesser(a.e, b.e)),
                        BigShl(b.m, b.e - Lesser(a.e, b.e))),
                 BigOne, Lesser(a.e, b.e)) : a \in { x }, b \in { y } })
FSub(x, y) ==
  The({ RoundRat(BigSub(BigShl(a.m, a.e - Lesser(a.e, b.e)),
                        BigShl(b.m, b.e - Lesser(a.e, b.e))),
                 BigOne, Lesser(a.e, b.e)) : a \in { x }, b \in { y } })

\* Math.round(x) of a double x >= 1/2: floor(x + 1/2), as a natural.
MathRoundDouble(x) ==
  The({ IF a.e >= 0 THEN BigToNat(BigShl(a.m, a.e))
        ELSE BigToNat(BigShr(BigAdd(a.m, BigShl(BigOne, (0 - a.e) - 1)), 0 - a.e)) :
        a \in { x } })

\* Math.floor(x) of a double x >= 1, as a natural.
MathFloorDouble(x) ==
  The({ IF a.e >= 0 THEN BigToNat(BigShl(a.m, a.e))
        ELSE BigToNat(BigShr(a.m, 0 - a.e)) : a \in { x } })

\* ---- Math.pow
\* The limbs a power is carried on: products are cut to their PowLimbs highest.
PowLimbs == 12

\* m * 2^e cut to the PowLimbs highest limbs of m: a lower bound [ m, e ] of it,
\* short of it by less than one part in BigBase^(PowLimbs - 1).
Cut(m, e) ==
  The({ IF Len(v) <= PowLimbs THEN [ m |-> v, e |-> e ]
        ELSE [ m |-> SubSeq(v, Len(v) - PowLimbs + 1, Len(v)),
               e |-> e + 15 * (Len(v) - PowLimbs) ] : v \in { m } })

RECURSIVE PowLower(_, _)
\* A lower bound of x^n by repeated squaring, every product cut.
PowLower(x, n) ==
  IF n = 1 THEN x
  ELSE The({ The({ IF n % 2 = 0 THEN sq ELSE Cut(BigMul(sq.m, x.m), sq.e + x.e) :
                   sq \in { Cut(BigMul(half.m, half.m), 2 * half.e) } }) :
             half \in { PowLower(x, n \div 2) } })

\* Math.pow errs by less than PowQuarters quarters of a unit in the last place.
PowQuarters == 3

\* The doubles less than PowQuarters / 4 of a unit in the last place from a
\* power lying between qlo and qhi quarters of that unit 2^(e + 2), lowest first.
Within(qlo, qhi, e) ==
  (IF qlo[1] % 4 < PowQuarters THEN << [ m |-> BigShr(qlo, 2), e |-> e + 2 ] >>
   ELSE << >>)
    \o (IF qhi[1] % 4 >= 4 - PowQuarters
        THEN << Normal(BigAdd(BigShr(qhi, 2), BigOne), e + 2) >> ELSE << >>)

\* The doubles near a power that lies between lower and lower increased by one
\* part in 2^150 and one unit, counted at the binary digit t of lower.m.
Reach(lower, t) ==
  The({ Within(qlo, qhi, lower.e + t) :
        qlo \in { BigShr(lower.m, t) },
        qhi \in { BigShr(BigAdd(lower.m, BigAdd(BigShr(lower.m, 150), BigOne)), t) } })

\* The doubles Math.pow(x, n) may return, lowest first: those less than
\* PowQuarters / 4 of a unit in the last place from x^n.  x^1 is x.
PowChoices(x, n) ==
  The({ IF n = 1 THEN << v >>
        ELSE The({ Reach(lower, BigBitLen(lower.m) - 55) :
                   lower \in { PowLower(v, n) } }) : v \in { x } })

\* ------------------------------------------------------ numbers and formatting
\* The fixed-point unit: the Fixed value of 1.0.
FixedScale == 100 * 100

\* The exact rational x rounded to 2 decimals, a half upwards, as a Fixed value.
RoundedExactly(x) == RoundHundredfold(x) * (FixedScale \div 100)

\* Mutant: Math.floor(n * 100) / 100.
round2_Floor(x) == MathFloorDouble(FMul(x, ToDouble(100))) * (FixedScale \div 100)

\* round2(n) = Math.round(n * 100) / 100 of a double n: the double nearest to
\* a whole number of hundredths, as the Fixed value of these hundredths.
round2(x) == MathRoundDouble(FMul(x, ToDouble(100))) * (FixedScale \div 100)

\* The w-th of the values a call may return, counted around.
Choice(values, w) == The({ v[(w % Len(v)) + 1] : v \in { values } })

\* Math.round(f) of a Fixed value f, as a Fixed value.
MathRound(f) == ((2 * f + FixedScale) \div (2 * FixedScale)) * FixedScale

\* Mutant: f * 0.1.
TimesOneHundredth_Tenth(f) == f \div 10

\* f * 0.01 of a Fixed value f (exact for every two-decimal f).
TimesOneHundredth(f) == f \div 100

\* randInt(min, max) on the draw u: floor(u/RandDen * (max - min + 1)) + min.
randInt(min, max, u) == ((u * (max - min + 1)) \div RandDen) + min

\* `${n}` of an integer n.
NumberToString(n) == ToString(n)

RECURSIVE ToLocaleString(_)
\* n.toLocaleString() of a natural n in the en-US locale: groups of three digits.
ToLocaleString(n) ==
  IF n < 1000 THEN ToString(n)
  ELSE LET r == n % 1000
       IN  ToLocaleString(n \div 1000) \o ","
             \o (IF r < 10 THEN "00" ELSE IF r < 100 THEN "0" ELSE "") \o ToString(r)

\* `year${years > 1 ? "s" : ""}`.
YearWord(years) == "year" \o (IF years > 1 THEN "s" ELSE "")

\* --------------------------------------------------- numeric question templates
\* Each generator is given the Math.random() draws it consumes, in order, and
\* after them the choice among the doubles its Math.pow call may return.
\* Math.pow(1 + rate / 100, years)
CompoundFactor(rate, years, w) ==
  Choice(PowChoices(FAdd(ToDouble(1), FDiv(ToDouble(rate), ToDouble(100))),
                    years), w)

\* round2(principal * Math.pow(1 + rate / 100, years))
CompoundAnswer(principal, factor) == round2(FMul(ToDouble(principal), factor))

CompoundInterestGenerator(d) ==
  LET principal == randInt(1, 50, d[1]) * 1000
      rate == randInt(2, 12, d[2])
      years == randInt(1, 10, d[3])
  IN  The({ [ questionText |->
                "You invest $" \o ToLocaleString(principal) \o " at "
                  \o NumberToString(rate)
                  \o "% annual compound interest. How much will you have after "
                  \o NumberToString(years) \o " " \o YearWord(years) \o "?",
              correctAnswer |-> answer,
              tolerance |-> TimesOneHundredth(answer) ] :
            answer \in { CompoundAnswer(principal,
                                        CompoundFactor(rate, years, d[4])) } })

\* rate / 100
SimpleFactor(rate) == FDiv(ToDouble(rate), ToDouble(100))

\* Mutant: the interest of one year only.
SimpleTotal_OneYear(principal, years, factor) ==
  principal * FixedScale + round2(FMul(ToDouble(principal), factor))

\* interest = round2(principal * (rate / 100) * years); principal + interest
SimpleTotal(principal, years, factor) ==
  principal * FixedScale
    + round2(FMul(FMul(ToDouble(principal), factor), ToDouble(years)))

SimpleInterestGenerator(d) ==
  LET principal == randInt(1, 20, d[1]) * 1000
      rate == randInt(3, 10, d[2])
      years == randInt(1, 5, d[3])
  IN  The({ [ questionText |->
                "You deposit $" \o ToLocaleString(principal)
                  \o " in an account earning " \o NumberToString(rate)
                  \o "% simple interest per year. What is the total amount after "
                  \o NumberToString(years) \o " " \o YearWord(years) \o "?",
              correctAnswer |-> total,
              tolerance |-> TimesOneHundredth(total) ] :
            total \in { SimpleTotal(principal, years, SimpleFactor(rate)) } })

\* 72 / rate
RuleOf72Quotient(rate) == FDiv(ToDouble(72), ToDouble(rate))

\* Mutant: the quotient cut to a whole number.
RuleOf72Answer_Cut(quotient) ==
  (round2(quotient) \div FixedScale) * FixedScale

\* answer = round2(72 / rate); correctAnswer: Math.round(answer)
RuleOf72Answer(quotient) == MathRound(round2(quotient))

RuleOf72Generator(d) ==
  LET rate == randInt(2, 12, d[1])
  IN  [ questionText |->
          "Using the Rule of 72, approximately how many years will it take to double your money at a "
            \o NumberToString(rate)
            \o "% annual return? (Round to the nearest whole number)",
        correctAnswer |-> RuleOf72Answer(RuleOf72Quotient(rate)),
        tolerance |-> 1 * FixedScale ]

\* Mutant: n = years.
FutureValueRatio_Yearly(rate, years, w) ==
  The({ FDiv(FSub(Choice(PowChoices(FAdd(ToDouble(1), r), years), w),
                  ToDouble(1)), r) :
        r \in { FDiv(FDiv(ToDouble(rate), ToDouble(100)), ToDouble(12)) } })

\* r = rate / 100 / 12; n = years * 12; (Math.pow(1 + r, n) - 1) / r
FutureValueRatio(rate, years, w) ==
  The({ FDiv(FSub(Choice(PowChoices(FAdd(ToDouble(1), r), years * 12), w),
                  ToDouble(1)), r) :
        r \in { FDiv(FDiv(ToDouble(rate), ToDouble(100)), ToDouble(12)) } })

\* fv = round2(monthly * ((Math.pow(1 + r, n) - 1) / r))
FutureValueAnswer(monthly, ratio) == round2(FMul(ToDouble(monthly), ratio))

FutureValueGenerator(d) ==
  LET monthly == randInt(1, 10, d[1]) * 100
      rate == randInt(4, 10, d[2])
      years == randInt(2, 10, d[3])
  IN  The({ [ questionText |->
                "You save $" \o NumberToString(monthly) \o " per month for "
                  \o NumberToString(years) \o " years at " \o NumberToString(rate)
                  \o "% annual interest (compounded monthly). What is the total future value?",
              correctAnswer |-> fv,
              tolerance |-> TimesOneHundredth(fv) ] :
            fv \in { FutureValueAnswer(monthly,
                                       FutureValueRatio(rate, years, d[4])) } })

\* The draw vectors explored for one generator() call inside a batch: every
\* draw lowest.
GenDraws == << << 0, 0, 0, 0 >> >>

\* The values each draw takes when single selections are explored: lowest,
\* middle, highest.
DrawLevels == << 0, RandDen \div 2, RandDen - 1 >>

\* Every vector of three draws over DrawLevels, the choice of Math.pow
\* alternating.
GridDraws ==
  [ n \in 1 .. 27 |->
      << DrawLevels[((n - 1) \div 9) + 1], DrawLevels[(((n - 1) \div 3) % 3) + 1],
         DrawLevels[((n - 1) % 3) + 1], n % 2 >> ]

\* The generator of the template with the given id, on the draws d.
Generator(id, d) ==
  CASE id = "num-compound-interest" -> CompoundInterestGenerator(d)
    [] id = "num-simple-interest" -> SimpleInterestGenerator(d)
    [] id = "num-rule-of-72" -> RuleOf72Generator(d)
    [] id = "num-future-value-annuity" -> FutureValueGenerator(d)

\* A generator as the table of its results: entry k of the first j is its
\* result on the draws draws[k].
Tabulate(id, draws, j) == [ k \in 1 .. j |-> Generator(id, draws[k]) ]

\* NUMERIC_TEMPLATES, each generator tabulated on the draw vectors draws.
NumericTemplates(draws) ==
  << [ id |-> "num-compound-interest", type |-> "numeric",
       template |-> "Compound interest calculation",
       generator |-> Tabulate("num-compound-interest", draws, Len(draws)) ],
     [ id |-> "num-simple-interest", type |-> "numeric",
       template |-> "Simple interest calculation",
       generator |-> Tabulate("num-simple-interest", draws, Len(draws)) ],
     [ id |-> "num-rule-of-72", type |-> "numeric",
       template |-> "Rule of 72 estimation",
       generator |-> Tabulate("num-rule-of-72", draws, Len(draws)) ],
     [ id |-> "num-future-value-annuity", type |-> "numeric",
       template |-> "Future value of monthly savings",
       generator |-> Tabulate("num-future-value-annuity", draws, Len(draws)) ] >>

\* Mutant: the templates carry the ids of the first pool entries.
NUMERIC_TEMPLATES_PoolIds ==
  [ k \in 1 .. 4 |->
      [ NumericTemplates(GenDraws)[k] EXCEPT !.id = MCQ_POOL[k].id ] ]

NUMERIC_TEMPLATES == NumericTemplates(GenDraws)

\* ------------------------------------------------------------------- state
VARIABLES
  pool,            \* the MCQ catalog the service was loaded with
  templates,       \* the numeric template catalog the service was loaded with
  lastQuestionId,  \* let lastQuestionId: string | null
  now,             \* the value Date.now() last returned
  pc,              \* where the running getQuestionBatch call is
  args,            \* getQuestionBatch: the argument list of the call
  count,           \* getQuestionBatch: count
  i,               \* getQuestionBatch: i
  questions,       \* getQuestionBatch: questions (the value returned once pc = "done")
  isMCQ,           \* getNextQuestion: isMCQ
  picked,          \* getNextQuestion: index of question / template in its catalog
  rolls,           \* getNextQuestion: iterations of the do-while body so far
  sources,         \* history: pool-entry / template id behind each of questions
  served,          \* history: pool-entry / template ids behind the two latest results
  twin,            \* a second execution of getQuestionBatch, fed the same draws
  calc,            \* a generator() call: where it is, its inputs, its values
  shown,           \* QuestionCard: the prop question of the card on screen
  inputValue,      \* NumericCard: inputValue, a sequence of characters
  isSubmitted,     \* NumericCard: isSubmitted
  isCorrect,       \* NumericCard: isCorrect
  selectedIndex,   \* MCQCard: selectedIndex
  calls,           \* history: the handler calls made on the card, by outcome
  feed,            \* HomeScreen: the state questions, the data of the FlatList
  isLoadingMore,   \* HomeScreen: isLoadingMore.current
  handler,         \* HomeScreen: what is executing (the initializer, a handler)
  handled,         \* history: end-reached events handled, by outcome
  race,            \* two executions of getNextQuestion sharing lastQuestionId
  raced,           \* history: how the steps of the two executions interleaved
  experienceLevel, \* AccountScreen: experienceLevel
  isEditing,       \* AccountScreen: isEditing
  editLevel,       \* AccountScreen: editLevel
  session          \* history: the presses made on the account screen

\* The state of the card on screen.
CardVars == << shown, inputValue, isSubmitted, isCorrect, selectedIndex, calls >>

\* The state of the account screen.
AccountVars == << experienceLevel, isEditing, editLevel, session >>

\* The executions of getNextQuestion that share lastQuestionId.
RaceVars == << race, raced >>

\* The state of the home screen.
HomeVars == << feed, isLoadingMore, handler, handled >>

vars ==
  << pool, templates, lastQuestionId, now, pc, args, count, i, questions,
     isMCQ, picked, rolls, sources, served, twin, calc, CardVars, HomeVars,
     RaceVars, AccountVars >>

\* getQuestionBatch(count: number = 10)
DefaultCount == 10

\* The draws Math.random() may return.
Draws == 0 .. RandDen - 1

\* The catalogs a deployment may load: the shipped ones, and single-entry ones.
Deployments ==
  { [ pool |-> MCQ_POOL, templates |-> NUMERIC_TEMPLATES ],
    [ pool |-> SubSeq(MCQ_POOL, 1, 1),
      templates |-> SubSeq(NUMERIC_TEMPLATES, 1, 1) ] }

\* The second execution while none is running: "off". Its fields are those of
\* a getQuestionBatch call and of the lastQuestionId it runs on.
TwinOff ==
  [ pc |-> "off", lastQuestionId |-> Null, count |-> 0, i |-> 0,
    questions |-> << >>, sources |-> << >>, isMCQ |-> FALSE, picked |-> 0 ]

\* No generator() call is being followed.
CalcIdle == [ stage |-> "idle" ]

\* No handler of a card has been called.
NoCalls == [ unparsed |-> 0, verdicts |-> 0, ignored |-> 0, select |-> 0 ]

\* useState<number | null>(null): the index that stands for null.
NullIndex == 0 - 1

\* The prop question while no card is on screen.
NoQuestion == [ type |-> "none" ]

\* Nothing has been pressed on the account screen.
NoPress == [ did |-> "none", selected |-> "none", presses |-> 0 ]

\* The account screen as its first render leaves it: useState("beginner"),
\* useState(false), useState("beginner").
AccountInitial ==
  /\ experienceLevel = "beginner"
  /\ isEditing = FALSE
  /\ editLevel = "beginner"
  /\ session = NoPress

\* getNextQuestion is not executing: its locals are not set.
NotCalled ==
  [ pc |-> "off", isMCQ |-> FALSE, picked |-> 0, generated |-> 0,
    result |-> NoQuestion, source |-> Null ]

\* No two executions of getNextQuestion share lastQuestionId.
NoRace ==
  /\ race = [ p \in 1 .. 2 |-> NotCalled ]
  /\ raced = [ together |-> FALSE, stale |-> FALSE ]

\* No end-reached event has been handled.
NoneHandled == [ loaded |-> 0, skipped |-> 0 ]

\* The home screen is not mounted.
NoHome ==
  /\ feed = << >>
  /\ isLoadingMore = FALSE
  /\ handler = "unmounted"
  /\ handled = NoneHandled

\* No card is on screen.
NoCard ==
  /\ shown = NoQuestion
  /\ inputValue = << >>
  /\ isSubmitted = FALSE
  /\ isCorrect = FALSE
  /\ selectedIndex = NullIndex
  /\ calls = NoCalls

Init ==
  /\ \E dep \in Deployments : pool = dep.pool /\ templates = dep.templates
  /\ lastQuestionId = Null
  /\ now = 0
  /\ pc = "idle"
  /\ args = << >>
  /\ count = 0
  /\ i = 0
  /\ questions = << >>
  /\ isMCQ = FALSE
  /\ picked = 0
  /\ rolls = 0
  /\ sources = << >>
  /\ served = << >>
  /\ twin = TwinOff
  /\ calc = CalcIdle
  /\ NoCard
  /\ NoHome
  /\ NoRace
  /\ AccountInitial

\* ------------------------------------------------------------ getNextQuestion
\* Math.random() < 0.6
IsMCQDraw(u) == u * 10 < 6 * RandDen

\* The catalog the current call selects from.
Catalog == IF isMCQ THEN pool ELSE templates

\* Mutant: the loop never re-rolls.
RepeatTest_NoReroll(id, last, length) == FALSE

\* Mutant: the test without its length guard.
RepeatTest_NoLengthGuard(id, last, length) == id = last

\* while (question.id === lastQuestionId && MCQ_POOL.length > 1), and the same
\* test on template.id and NUMERIC_TEMPLATES.length.
RepeatTest(id, last, length) == id = last /\ length > 1

\* Mutant: the copy with a 1-based correctIndex.
Spread_OneBased(question) ==
  [ id |-> question.id, type |-> question.type, question |-> question.question,
    options |-> question.options, correctIndex |-> question.correctIndex + 1 ]

\* { ...question }
Spread(question) ==
  [ id |-> question.id, type |-> question.type, question |-> question.question,
    options |-> question.options, correctIndex |-> question.correctIndex ]

\* generated.tolerance ?? generated.correctAnswer * 0.01
ToleranceOrDefault(generated) ==
  IF "tolerance" \in DOMAIN generated
  THEN generated.tolerance
  ELSE TimesOneHundredth(generated.correctAnswer)

\* `${template.id}-${Date.now()}`
NumericId(template, t) == template.id \o "-" \o NumberToString(t)

\* The numeric ResolvedQuestion built from a template and its generated result.
ResolveNumeric(template, generated, t) ==
  [ id |-> NumericId(template, t), type |-> "numeric",
    questionText |-> generated.questionText,
    correctAnswer |-> generated.correctAnswer,
    tolerance |-> ToleranceOrDefault(generated) ]

\* Mutant: the id of the question returned is tracked.
TrackedId_OfResult(source, result) == result.id

\* lastQuestionId = question.id, lastQuestionId = template.id: the id tracked is
\* that of the pool entry or template, not that of the question returned.
TrackedId(source, result) == source.id

\* questions.push(q)
Push(list, q) == Append(list, q)

\* Mutant: serving consumes the first entry of the catalog.
Kept_Consumed(catalog) == Tail(catalog)

\* MCQ_POOL and NUMERIC_TEMPLATES are only read (indexed, .length): a call
\* leaves each catalog as it was.
Kept(catalog) == catalog

\* The history of sources, with one more: the two latest are kept.
Latest(history, id) ==
  IF history = << >> THEN << id >> ELSE << history[Len(history)], id >>

\* One iteration of the do-while on a catalog, the id tracked being last: the
\* index drawn, and whether the loop test asks for another iteration.
RollOutcome(catalog, last, u) ==
  LET k == randInt(0, Len(catalog) - 1, u) + 1
  IN  [ picked |-> k, again |-> RepeatTest(catalog[k].id, last, Len(catalog)) ]

\* lastQuestionId = question.id; return { ...question }
ServeMCQ(question) ==
  LET result == Spread(question)
  IN  [ result |-> result, tracked |-> TrackedId(question, result),
        source |-> question.id ]

\* Mutant: the clock reading is added to the generated answer.
ServeNumeric_Clocked(template, generated, t) ==
  LET result ==
        ResolveNumeric(template,
                       [ generated EXCEPT !.correctAnswer = @ + t ], t)
  IN  [ result |-> result, tracked |-> TrackedId(template, result),
        source |-> template.id ]

\* lastQuestionId = template.id; return { id, type, ...generated, tolerance },
\* generated being the result of template.generator() and t that of Date.now().
ServeNumeric(template, generated, t) ==
  LET result == ResolveNumeric(template, generated, t)
  IN  [ result |-> result, tracked |-> TrackedId(template, result),
        source |-> template.id ]

\* ---- the second execution: the same statements, on its own lastQuestionId,
\* ---- locals and clock, and on the draws of the first
\* The entry of getQuestionBatch(n), lastQuestionId being last.
TwinStart(n, last) ==
  [ pc |-> "loop", lastQuestionId |-> last, count |-> n, i |-> 0,
    questions |-> << >>, sources |-> << >>, isMCQ |-> FALSE, picked |-> 0 ]

\* const isMCQ = Math.random() < 0.6
TwinChoose(tw, u) ==
  IF tw.pc # "next" THEN tw
  ELSE [ tw EXCEPT !.isMCQ = IsMCQDraw(u), !.picked = 0, !.pc = "roll" ]

\* One iteration of the do-while.
TwinRoll(tw, u) ==
  IF tw.pc # "roll" THEN tw
  ELSE LET out == RollOutcome(IF tw.isMCQ THEN pool ELSE templates,
                              tw.lastQuestionId, u)
       IN  [ tw EXCEPT !.picked = out.picked,
                       !.pc = IF out.again THEN "roll" ELSE "accept" ]

\* The end of getNextQuestion, out being what it serves, and the caller's push.
TwinPush(tw, out) ==
  [ tw EXCEPT !.lastQuestionId = out.tracked,
              !.questions = Push(@, out.result),
              !.sources = Append(@, out.source),
              !.i = @ + 1, !.pc = "loop", !.isMCQ = FALSE, !.picked = 0 ]

\* The MCQ branch.
TwinAcceptMCQ(tw) ==
  IF tw.pc # "accept" \/ ~tw.isMCQ THEN tw
  ELSE TwinPush(tw, ServeMCQ(pool[tw.picked]))

\* The numeric branch, on the draws GenDraws[j] and the clock reading t.
TwinAcceptNumeric(tw, j, t) ==
  IF tw.pc # "accept" \/ tw.isMCQ THEN tw
  ELSE LET template == templates[tw.picked]
       IN  TwinPush(tw, ServeNumeric(template, template.generator[j], t))

\* The second execution takes the step only while it runs.
Shadow(step) == IF twin.pc = "off" THEN twin ELSE step

\* ---- the first execution
\* const isMCQ = Math.random() < 0.6
ChooseCategory(u) ==
  /\ pc = "next"
  /\ isMCQ' = IsMCQDraw(u)
  /\ picked' = 0
  /\ rolls' = 0
  /\ pc' = "roll"
  /\ twin' = Shadow(TwinChoose(twin, u))
  /\ UNCHANGED << AccountVars, RaceVars, HomeVars, CardVars, calc, pool, templates, lastQuestionId, now, args, count, i,
                  questions, sources, served >>

\* One iteration of the do-while: the draw of the body, then the loop test.
Roll(u) ==
  /\ pc = "roll"
  /\ LET out == RollOutcome(Catalog, lastQuestionId, u)
     IN  /\ picked' = out.picked
         /\ pc' = IF out.again THEN "roll" ELSE "accept"
  /\ rolls' = IF rolls < MaxRolls THEN rolls + 1 ELSE rolls
  /\ twin' = Shadow(TwinRoll(twin, u))
  /\ UNCHANGED << AccountVars, RaceVars, HomeVars, CardVars, calc, pool, templates, lastQuestionId, now, args, count, i,
                  questions, isMCQ, sources, served >>

\* lastQuestionId = question.id; return { ...question }; and the caller's push.
\* The locals of the call end with it.
AcceptMCQ ==
  /\ pc = "accept"
  /\ isMCQ
  /\ LET out == ServeMCQ(pool[picked])
     IN  /\ lastQuestionId' = out.tracked
         /\ questions' = Push(questions, out.result)
         /\ sources' = Append(sources, out.source)
         /\ served' = Latest(served, out.source)
  /\ pool' = Kept(pool)
  /\ templates' = Kept(templates)
  /\ i' = i + 1
  /\ pc' = "loop"
  /\ isMCQ' = FALSE /\ picked' = 0 /\ rolls' = 0
  /\ twin' = Shadow(TwinAcceptMCQ(twin))
  /\ UNCHANGED << AccountVars, RaceVars, HomeVars, CardVars, calc, now, args, count >>

\* generated = template.generator() on the draws GenDraws[j]; lastQuestionId =
\* template.id; the returned numeric question, its id stamped with Date.now();
\* and the caller's push. The second execution reads its clock a millisecond
\* later.
AcceptNumeric(j, t) ==
  /\ pc = "accept"
  /\ ~isMCQ
  /\ t >= now
  /\ LET template == templates[picked]
         out == ServeNumeric(template, template.generator[j], t)
     IN  /\ lastQuestionId' = out.tracked
         /\ questions' = Push(questions, out.result)
         /\ sources' = Append(sources, out.source)
         /\ served' = Latest(served, out.source)
  /\ pool' = Kept(pool)
  /\ templates' = Kept(templates)
  /\ now' = t
  /\ i' = i + 1
  /\ pc' = "loop"
  /\ isMCQ' = FALSE /\ picked' = 0 /\ rolls' = 0
  /\ twin' = Shadow(TwinAcceptNumeric(twin, j, t + 1))
  /\ UNCHANGED << AccountVars, RaceVars, HomeVars, CardVars, calc, args, count >>

\* ----------------------------------------------------------- getQuestionBatch
\* Mutant: i <= count.
LoopCondition_Inclusive(index, limit) == index <= limit

\* Mutant: i !== count.
LoopCondition_NotEqual(index, limit) == index # limit

\* i < count
LoopCondition(index, limit) == index < limit

\* Entry of getQuestionBatch on the argument list a: count = a[1], or its default.
\* What the caller does besides is the caller's.
Enter(a) ==
  /\ pc \in { "idle", "done" }
  /\ args' = a
  /\ count' = IF a = << >> THEN DefaultCount ELSE a[1]
  /\ questions' = << >>
  /\ i' = 0
  /\ sources' = << >>
  /\ pc' = "loop"
  /\ UNCHANGED << AccountVars, RaceVars, CardVars, calc, pool, templates, lastQuestionId, now, isMCQ,
                  picked, rolls, served >>

\* A call of getQuestionBatch with no second execution beside it.
StartBatch(a) == Enter(a) /\ twin' = TwinOff /\ UNCHANGED HomeVars

\* The call getQuestionBatch(n).
CallBatch(n) == StartBatch(<< n >>)

\* The call getQuestionBatch(): count takes its default.
CallBatchDefault == StartBatch(<< >>)

\* The second execution: for (...; i < count; ...)
TwinLoopTest(tw) ==
  IF tw.pc # "loop" THEN tw
  ELSE [ tw EXCEPT !.pc = IF LoopCondition(tw.i, tw.count)
                          THEN "next" ELSE "done" ]

\* for (...; i < count; ...): enter getNextQuestion, or return questions.
LoopTest ==
  /\ pc = "loop"
  /\ pc' = IF LoopCondition(i, count) THEN "next" ELSE "done"
  /\ twin' = Shadow(TwinLoopTest(twin))
  /\ UNCHANGED << AccountVars, RaceVars, HomeVars, CardVars, calc, pool, templates, lastQuestionId, now, args, count, i,
                  questions, isMCQ, picked, rolls, sources, served >>

\* The default-count call is explored on the single-entry catalogs, where ten
\* consecutive selections remain enumerable.
Next ==
  \/ \E n \in -1 .. MaxCount : CallBatch(n)
  \/ (Len(pool) = 1 /\ Len(templates) = 1 /\ CallBatchDefault)
  \/ LoopTest
  \/ \E u \in Draws : ChooseCategory(u)
  \/ \E u \in Draws : Roll(u)
  \/ AcceptMCQ
  \/ \E j \in 1 .. Len(GenDraws) : \E t \in 0 .. MaxClock : AcceptNumeric(j, t)

Spec == Init /\ [][Next]_vars

\* ------------------------------------------------- single selections, many draws
\* A generator result without its optional field tolerance
\* (GeneratedQuestionResult: tolerance?: number).
OmitTolerance(generated) ==
  [ questionText |-> generated.questionText,
    correctAnswer |-> generated.correctAnswer ]

\* The templates, each generator leaving tolerance out of its result.
WithoutTolerance(catalog) ==
  [ k \in 1 .. Len(catalog) |->
      [ catalog[k] EXCEPT
          !.generator = [ j \in 1 .. Len(@) |-> OmitTolerance(@[j]) ] ] ]

\* The shipped catalogs with every generator tabulated on GridDraws, as shipped or
\* with the generators leaving tolerance to the selector; the service is called
\* for one question at a time.
InitGen ==
  /\ pool = MCQ_POOL
  /\ \/ templates = NumericTemplates(GridDraws)
     \/ templates = WithoutTolerance(NumericTemplates(GridDraws))
  /\ lastQuestionId = Null
  /\ now = 0
  /\ pc = "idle"
  /\ args = << >>
  /\ count = 0
  /\ i = 0
  /\ questions = << >>
  /\ isMCQ = FALSE
  /\ picked = 0
  /\ rolls = 0
  /\ sources = << >>
  /\ served = << >>
  /\ twin = TwinOff
  /\ calc = CalcIdle
  /\ NoCard
  /\ NoHome
  /\ NoRace
  /\ AccountInitial

NextGen ==
  \/ CallBatch(1)
  \/ LoopTest
  \/ \E u \in Draws : ChooseCategory(u)
  \/ \E u \in Draws : Roll(u)
  \/ AcceptMCQ
  \/ \E j \in 1 .. Len(GridDraws) : \E t \in 0 .. MaxClock : AcceptNumeric(j, t)

SpecGen == InitGen /\ [][NextGen]_vars

\* ------------------------------------------------ generator() calls, all inputs
\* The values randInt(min, max) returns as Math.random() ranges over [0, 1).
RandIntRange(min, max) == min .. max

\* What a generator() call leaves alone.
ServiceVars ==
  << pool, templates, lastQuestionId, now, pc, args, count, i, questions,
     isMCQ, picked, rolls, sources, served, twin >>

\* A generator() call is followed in two steps: the part of its answer that
\* rate and years determine, then the answer, once principal or monthly is drawn.
Started(id, rate, years, factor) ==
  [ stage |-> "factor", id |-> id, rate |-> rate, years |-> years,
    factor |-> factor ]

\* The call returned: its inputs and its result.
Returned(id, amount, answer, tolerance) ==
  [ stage |-> "done", id |-> id, amount |-> amount, rate |-> calc.rate,
    years |-> calc.years, correctAnswer |-> answer, tolerance |-> tolerance ]

\* num-compound-interest: rate, years, Math.pow(1 + rate / 100, years)
CompoundStart(rate, years, w) ==
  /\ calc.stage = "idle"
  /\ calc' = Started("num-compound-interest", rate, years,
                     CompoundFactor(rate, years, w))
  /\ UNCHANGED << ServiceVars, CardVars, HomeVars, AccountVars, RaceVars >>

\* num-compound-interest: principal = k * 1000, answer, the result
CompoundFinish(k) ==
  /\ calc.stage = "factor"
  /\ calc.id = "num-compound-interest"
  /\ LET answer == CompoundAnswer(k * 1000, calc.factor)
     IN  calc' = Returned(calc.id, k * 1000, answer, TimesOneHundredth(answer))
  /\ UNCHANGED << ServiceVars, CardVars, HomeVars, AccountVars, RaceVars >>

\* num-simple-interest: rate, years, rate / 100
SimpleStart(rate, years) ==
  /\ calc.stage = "idle"
  /\ calc' = Started("num-simple-interest", rate, years, SimpleFactor(rate))
  /\ UNCHANGED << ServiceVars, CardVars, HomeVars, AccountVars, RaceVars >>

\* num-simple-interest: principal = k * 1000, interest, total, the result
SimpleFinish(k) ==
  /\ calc.stage = "factor"
  /\ calc.id = "num-simple-interest"
  /\ LET total == SimpleTotal(k * 1000, calc.years, calc.factor)
     IN  calc' = Returned(calc.id, k * 1000, total, TimesOneHundredth(total))
  /\ UNCHANGED << ServiceVars, CardVars, HomeVars, AccountVars, RaceVars >>

\* num-rule-of-72: rate, 72 / rate (the generator draws no years)
RuleOf72Start(rate) ==
  /\ calc.stage = "idle"
  /\ calc' = Started("num-rule-of-72", rate, 0, RuleOf72Quotient(rate))
  /\ UNCHANGED << ServiceVars, CardVars, HomeVars, AccountVars, RaceVars >>

\* num-rule-of-72: answer, the result (the generator draws no amount)
RuleOf72Finish ==
  /\ calc.stage = "factor"
  /\ calc.id = "num-rule-of-72"
  /\ calc' = Returned(calc.id, 0, RuleOf72Answer(calc.factor), 1 * FixedScale)
  /\ UNCHANGED << ServiceVars, CardVars, HomeVars, AccountVars, RaceVars >>

\* num-future-value-annuity: rate, years, r, n, (Math.pow(1 + r, n) - 1) / r
FutureValueStart(rate, years, w) ==
  /\ calc.stage = "idle"
  /\ calc' = Started("num-future-value-annuity", rate, years,
                     FutureValueRatio(rate, years, w))
  /\ UNCHANGED << ServiceVars, CardVars, HomeVars, AccountVars, RaceVars >>

\* num-future-value-annuity: monthly = k * 100, fv, the result
FutureValueFinish(k) ==
  /\ calc.stage = "factor"
  /\ calc.id = "num-future-value-annuity"
  /\ LET fv == FutureValueAnswer(k * 100, calc.factor)
     IN  calc' = Returned(calc.id, k * 100, fv, TimesOneHundredth(fv))
  /\ UNCHANGED << ServiceVars, CardVars, HomeVars, AccountVars, RaceVars >>

InitNum ==
  /\ pool = MCQ_POOL
  /\ templates = NUMERIC_TEMPLATES
  /\ lastQuestionId = Null
  /\ now = 0
  /\ pc = "idle"
  /\ args = << >>
  /\ count = 0
  /\ i = 0
  /\ questions = << >>
  /\ isMCQ = FALSE
  /\ picked = 0
  /\ rolls = 0
  /\ sources = << >>
  /\ served = << >>
  /\ twin = TwinOff
  /\ calc = CalcIdle
  /\ NoCard
  /\ NoHome
  /\ NoRace
  /\ AccountInitial

NextNum ==
  \/ \E rate \in RandIntRange(2, 12) : \E years \in RandIntRange(1, 10) :
       \E w \in 0 .. 1 : CompoundStart(rate, years, w)
  \/ \E k \in RandIntRange(1, 50) : CompoundFinish(k)
  \/ \E rate \in RandIntRange(3, 10) : \E years \in RandIntRange(1, 5) :
       SimpleStart(rate, years)
  \/ \E k \in RandIntRange(1, 20) : SimpleFinish(k)
  \/ \E rate \in RandIntRange(2, 12) : RuleOf72Start(rate)
  \/ RuleOf72Finish
  \/ \E rate \in RandIntRange(4, 10) : \E years \in RandIntRange(2, 10) :
       \E w \in 0 .. 1 : FutureValueStart(rate, years, w)
  \/ \E k \in RandIntRange(1, 10) : FutureValueFinish(k)

SpecNum == InitNum /\ [][NextNum]_vars

\* ------------------------------------------------------------- two executions
\* The call getQuestionBatch(n), and beside it a second execution of the same
\* call that starts on the same lastQuestionId, with no question served, and is
\* fed the same draws.
StartPair(n) ==
  Enter(<< n >>) /\ twin' = TwinStart(n, lastQuestionId) /\ UNCHANGED HomeVars

\* The shipped catalogs. Single selections build the history of the first
\* execution; any call made after them may be run twice.
InitTwin ==
  /\ pool = MCQ_POOL
  /\ templates = NUMERIC_TEMPLATES
  /\ lastQuestionId = Null
  /\ now = 0
  /\ pc = "idle"
  /\ args = << >>
  /\ count = 0
  /\ i = 0
  /\ questions = << >>
  /\ isMCQ = FALSE
  /\ picked = 0
  /\ rolls = 0
  /\ sources = << >>
  /\ served = << >>
  /\ twin = TwinOff
  /\ calc = CalcIdle
  /\ NoCard
  /\ NoHome
  /\ NoRace
  /\ AccountInitial

NextTwin ==
  \/ CallBatch(1)
  \/ \E n \in 0 .. PairCount : StartPair(n)
  \/ LoopTest
  \/ \E u \in Draws : ChooseCategory(u)
  \/ \E u \in Draws : Roll(u)
  \/ AcceptMCQ
  \/ \E j \in 1 .. Len(GenDraws) : \E t \in 0 .. MaxClock : AcceptNumeric(j, t)

SpecTwin == InitTwin /\ [][NextTwin]_vars

\* ------------------------------------------------------------ question cards
\* QuestionCard renders an MCQCard for a question of type "mcq" and a
\* NumericCard otherwise.  A handler runs to its end before the next event is
\* handled, on the state the card was last rendered with.

\* The longest text typed into the answer field.
MaxInput == 4

\* The handler calls of one outcome counted on one card.
MaxCalls == 2

\* The characters typed: two digits, the decimal point, the minus sign, two of
\* the characters handleSubmit strips, and a letter.
Alphabet == { "0", "1", ".", "-", ",", "$", "a" }

\* The decimal digits, digit d at place d + 1.
Digits == << "0", "1", "2", "3", "4", "5", "6", "7", "8", "9" >>
IsDigit(c) == \E d \in 1 .. 10 : Digits[d] = c
DigitValue(c) == (CHOOSE d \in 1 .. 10 : Digits[d] = c) - 1

\* inputValue.replace(/[$,\s]/g, "")
Cleaned(text) == SelectSeq(text, LAMBDA c : c \notin { "$", ",", " " })

RECURSIVE DigitRun(_, _)
\* The length of the run of digits of text that starts at place k.
DigitRun(text, k) ==
  IF k <= Len(text) /\ IsDigit(text[k]) THEN 1 + DigitRun(text, k + 1) ELSE 0

RECURSIVE DigitsValue(_)
\* The natural a sequence of digits writes.
DigitsValue(digits) ==
  IF digits = << >> THEN 0
  ELSE 10 * DigitsValue(SubSeq(digits, 1, Len(digits) - 1))
         + DigitValue(digits[Len(digits)])

\* A JavaScript number: NaN, or a sign (-1, 0, 1) and, unless the number is
\* zero, the double of its absolute value.
NaN == [ nan |-> TRUE ]
Zero == [ nan |-> FALSE, sign |-> 0 ]
Signed(sign, abs) == [ nan |-> FALSE, sign |-> sign, abs |-> abs ]

\* The longest prefix of text that is a decimal literal: an optional sign,
\* digits, and a decimal point with digits, one digit at least; the characters
\* after it are ignored.  signs, whole and places are the lengths of its parts,
\* point whether the decimal point follows the whole digits.
Literal(text, signs, whole) ==
  The({ [ signs |-> signs, whole |-> whole, point |-> point,
          places |-> IF point THEN DigitRun(text, signs + whole + 2) ELSE 0 ] :
        point \in { signs + whole < Len(text) /\ text[signs + whole + 1] = "." } })

\* The number a literal of text writes: the double nearest to it.
LiteralNumber(text, lit) ==
  The({ IF lit.whole + lit.places = 0 THEN NaN
        ELSE IF n = 0 THEN Zero
        ELSE Signed(IF lit.signs = 1 /\ text[1] = "-" THEN 0 - 1 ELSE 1,
                    RoundRat(BigFromNat(n), BigFromNat(10 ^ lit.places), 0)) :
        n \in { DigitsValue(SubSeq(text, lit.signs + 1, lit.signs + lit.whole)
                              \o SubSeq(text, lit.signs + lit.whole + 2,
                                        lit.signs + lit.whole + 1 + lit.places)) } })

\* parseFloat(text), text holding no white space.
parseFloat(text) ==
  The({ LiteralNumber(text, Literal(text, signs, DigitRun(text, signs + 1))) :
        signs \in { IF text # << >> /\ text[1] \in { "-", "+" } THEN 1 ELSE 0 } })

\* -1, 0, 1 as x < y, x = y, x > y, for doubles x, y > 0.
FCmp(x, y) ==
  IF x.e < y.e THEN 0 - 1 ELSE IF x.e > y.e THEN 1 ELSE BigCmp(x.m, y.m)

\* Math.abs(userAnswer - question.correctAnswer), correctAnswer > 0.
AbsDifference(userAnswer, correctAnswer) ==
  IF userAnswer.sign = 0 THEN Signed(1, correctAnswer)
  ELSE IF userAnswer.sign < 0 THEN Signed(1, FAdd(userAnswer.abs, correctAnswer))
  ELSE The({ IF c = 0 THEN Zero
             ELSE IF c > 0 THEN Signed(1, FSub(userAnswer.abs, correctAnswer))
             ELSE Signed(1, FSub(correctAnswer, userAnswer.abs)) :
             c \in { FCmp(userAnswer.abs, correctAnswer) } })

\* Mutant: diff < question.tolerance.
WithinTolerance_Strict(diff, tolerance) ==
  diff.sign = 0 \/ FCmp(diff.abs, tolerance) < 0

\* diff <= question.tolerance, tolerance > 0.
WithinTolerance(diff, tolerance) ==
  diff.sign = 0 \/ FCmp(diff.abs, tolerance) <= 0

\* The number a Fixed value f > 0 stands for.
NumberOf(f) == RoundRat(BigFromNat(f), BigFromNat(FixedScale), 0)

\* The numbers of a numeric question q of the service: correctAnswer, and the
\* tolerance as its generator computed it, answer * 0.01 or the literal 1.
NumericProps(q) ==
  [ id |-> q.id, type |-> q.type, questionText |-> q.questionText,
    correctAnswer |-> NumberOf(q.correctAnswer),
    tolerance |-> IF q.tolerance = TimesOneHundredth(q.correctAnswer)
                  THEN FMul(NumberOf(q.correctAnswer),
                            NumberOf(FixedScale \div 100))
                  ELSE NumberOf(q.tolerance) ]

\* The draws of the generator() calls whose questions are put on a card:
\* $1,000 at 10% for 1 year (1100.00), and a rate of 7% (72 / 7, reported as 10).
CardDraws ==
  [ compound |-> << 0, 9, 0, 0 >>, ruleOf72 |-> << 6, 0, 0, 0 >> ]

\* The questions put on a card, as getNextQuestion returns them.
CardQuestion(k) ==
  CASE k = 1 -> Spread(MCQ_POOL[1])
    [] k = 2 -> Spread(MCQ_POOL[4])
    [] k = 3 ->
         NumericProps(ResolveNumeric(NUMERIC_TEMPLATES[1],
                        CompoundInterestGenerator(CardDraws.compound), 0))
    [] k = 4 ->
         NumericProps(ResolveNumeric(NUMERIC_TEMPLATES[3],
                        RuleOf72Generator(CardDraws.ruleOf72), 0))

\* One more call of a handler, counted up to MaxCalls.
Counted(n) == IF n < MaxCalls THEN n + 1 ELSE n

\* onChangeText={setInputValue}, one character typed; editable={!isSubmitted}.
ChangeText(c) ==
  /\ shown.type = "numeric"
  /\ ~isSubmitted
  /\ Len(inputValue) < MaxInput
  /\ inputValue' = Append(inputValue, c)
  /\ UNCHANGED << shown, isSubmitted, isCorrect, selectedIndex, calls >>
  /\ UNCHANGED << ServiceVars, calc, HomeVars, AccountVars, RaceVars >>

\* Mutant: the early return is left out.
Returns_Never(submitted) == FALSE

\* if (isSubmitted) return
Returns(submitted) == submitted

\* handleSubmit, called by the Submit button or by onSubmitEditing.
HandleSubmit ==
  /\ shown.type = "numeric"
  /\ IF Returns(isSubmitted)
     THEN /\ calls' = [ calls EXCEPT !.ignored = Counted(@) ]
          /\ UNCHANGED << isSubmitted, isCorrect >>
     ELSE \E userAnswer \in { parseFloat(Cleaned(inputValue)) } :
            IF userAnswer.nan
            THEN /\ calls' = [ calls EXCEPT !.unparsed = Counted(@) ]
                 /\ UNCHANGED << isSubmitted, isCorrect >>
            ELSE /\ isCorrect' =
                      WithinTolerance(AbsDifference(userAnswer, shown.correctAnswer),
                                      shown.tolerance)
                 /\ isSubmitted' = TRUE
                 /\ calls' = [ calls EXCEPT !.verdicts = Counted(@) ]
  /\ UNCHANGED << shown, inputValue, selectedIndex >>
  /\ UNCHANGED << ServiceVars, calc, HomeVars, AccountVars, RaceVars >>

\* MCQCard: const isAnswered = selectedIndex !== null
isAnswered == selectedIndex # NullIndex

\* MCQCard: const isCorrect = selectedIndex === question.correctIndex
AnsweredCorrectly == selectedIndex = shown.correctIndex

\* Mutant: a later selection replaces the first.
Selected_Latest(current, index) == index

\* if (isAnswered) return; setSelectedIndex(index)
Selected(current, index) == IF current # NullIndex THEN current ELSE index

\* handleSelect(index), index counted from 0.
HandleSelect(index) ==
  /\ shown.type = "mcq"
  /\ index < Len(shown.options)
  /\ selectedIndex' = Selected(selectedIndex, index)
  /\ calls' = [ calls EXCEPT !.select = Counted(@) ]
  /\ UNCHANGED << shown, inputValue, isSubmitted, isCorrect >>
  /\ UNCHANGED << ServiceVars, calc, HomeVars, AccountVars, RaceVars >>

\* getOptionStyle(index): the style of option index.
getOptionStyle(index) ==
  IF ~isAnswered THEN "optionDefault"
  ELSE IF index = shown.correctIndex THEN "optionCorrect"
  ELSE IF index = selectedIndex /\ ~AnsweredCorrectly THEN "optionIncorrect"
  ELSE "optionDisabled"

\* The feedback line of a card: none before a verdict.
NumericFeedback ==
  IF ~isSubmitted THEN Null ELSE IF isCorrect THEN "Correct" ELSE "Incorrect"
MCQFeedback ==
  IF ~isAnswered THEN Null ELSE IF AnsweredCorrectly THEN "Correct" ELSE "Incorrect"

\* A card is mounted on one of the questions, nothing typed or selected.
InitCard ==
  /\ pool = MCQ_POOL
  /\ templates = NUMERIC_TEMPLATES
  /\ lastQuestionId = Null
  /\ now = 0
  /\ pc = "idle"
  /\ args = << >>
  /\ count = 0
  /\ i = 0
  /\ questions = << >>
  /\ isMCQ = FALSE
  /\ picked = 0
  /\ rolls = 0
  /\ sources = << >>
  /\ served = << >>
  /\ twin = TwinOff
  /\ calc = CalcIdle
  /\ \E k \in 1 .. 4 : shown = CardQuestion(k)
  /\ inputValue = << >>
  /\ isSubmitted = FALSE
  /\ isCorrect = FALSE
  /\ selectedIndex = NullIndex
  /\ calls = NoCalls
  /\ NoHome
  /\ NoRace
  /\ AccountInitial

NextCard ==
  \/ \E c \in Alphabet : ChangeText(c)
  \/ HandleSubmit
  \/ \E index \in 0 .. 3 : HandleSelect(index)

SpecCard == InitCard /\ [][NextCard]_vars

\* ----------------------------------------------------------------- home screen
\* HomeScreen keeps the feed in the state questions and loads a batch when the
\* list reports that its end is reached.  The initializer and the handler are
\* synchronous: each runs to its end before the next event is handled.

\* The most end-reached events followed.
MaxEvents == 2

\* The most numeric questions followed in one feed, one after the other.
HomeNumeric == 2

\* const BATCH_SIZE = 10
BATCH_SIZE == 10

\* The numeric questions loaded so far, the batch being loaded included.
NumericLoaded ==
  Len(SelectSeq(feed \o questions, LAMBDA q : q.type = "numeric"))

\* The question loaded last is a numeric one.
NumericLast ==
  /\ feed \o questions # << >>
  /\ (feed \o questions)[Len(feed) + Len(questions)].type = "numeric"

\* The numeric category is followed for the first numeric question of a feed,
\* and for those that come directly after it, up to HomeNumeric.
NumericFollowed ==
  NumericLoaded = 0 \/ (NumericLoaded < HomeNumeric /\ NumericLast)

\* useState(() => getQuestionBatch(BATCH_SIZE)): the initializer calls the
\* service.
Mount ==
  /\ handler = "unmounted"
  /\ Enter(<< BATCH_SIZE >>)
  /\ twin' = TwinOff
  /\ handler' = "mounting"
  /\ UNCHANGED << feed, isLoadingMore, handled >>

\* The batch the initializer returns is the first value of questions.
Mounted ==
  /\ handler = "mounting"
  /\ pc = "done"
  /\ feed' = questions
  /\ handler' = "idle"
  /\ UNCHANGED << ServiceVars, calc, CardVars, AccountVars, RaceVars, isLoadingMore, handled >>

\* Mutant: the new batch is appended in reverse order.
Appended_Reversed(prev, newBatch) ==
  prev \o [ k \in 1 .. Len(newBatch) |-> newBatch[Len(newBatch) + 1 - k] ]

\* Mutant: the new batch is put before the items shown.
Appended_Before(prev, newBatch) == newBatch \o prev

\* (prev) => [...prev, ...newBatch]
Appended(prev, newBatch) == prev \o newBatch

\* handleEndReached, up to its call of the service:
\* if (isLoadingMore.current) return; isLoadingMore.current = true;
\* getQuestionBatch(BATCH_SIZE)
HandleEndReached ==
  /\ handler = "idle"
  /\ handled.loaded + handled.skipped < MaxEvents
  /\ IF isLoadingMore
     THEN /\ handled' = [ handled EXCEPT !.skipped = @ + 1 ]
          /\ UNCHANGED << ServiceVars, calc, CardVars, AccountVars, RaceVars, feed,
                          isLoadingMore, handler >>
     ELSE /\ isLoadingMore' = TRUE
          /\ Enter(<< BATCH_SIZE >>)
          /\ twin' = TwinOff
          /\ handler' = "loading"
          /\ UNCHANGED << feed, handled >>

\* handleEndReached, from the return of the service: setQuestions((prev) =>
\* [...prev, ...newBatch]); isLoadingMore.current = false
EndReachedHandled ==
  /\ handler = "loading"
  /\ pc = "done"
  /\ feed' = Appended(feed, questions)
  /\ isLoadingMore' = FALSE
  /\ handled' = [ handled EXCEPT !.loaded = @ + 1 ]
  /\ handler' = "idle"
  /\ UNCHANGED << ServiceVars, calc, CardVars, AccountVars, RaceVars >>

\* The service loaded with two pool entries and two templates, so that the
\* items of a feed differ and its contents remain enumerable.
InitHome ==
  /\ pool = SubSeq(MCQ_POOL, 1, 2)
  /\ templates = SubSeq(NUMERIC_TEMPLATES, 1, 2)
  /\ lastQuestionId = Null
  /\ now = 0
  /\ pc = "idle"
  /\ args = << >>
  /\ count = 0
  /\ i = 0
  /\ questions = << >>
  /\ isMCQ = FALSE
  /\ picked = 0
  /\ rolls = 0
  /\ sources = << >>
  /\ served = << >>
  /\ twin = TwinOff
  /\ calc = CalcIdle
  /\ NoCard
  /\ NoHome
  /\ NoRace
  /\ AccountInitial

NextHome ==
  \/ Mount
  \/ Mounted
  \/ HandleEndReached
  \/ EndReachedHandled
  \/ LoopTest
  \/ \E u \in Draws :
       (IsMCQDraw(u) \/ NumericFollowed) /\ ChooseCategory(u)
  \/ \E u \in Draws : Roll(u)
  \/ AcceptMCQ
  \/ \E j \in 1 .. Len(GenDraws) : \E t \in 0 .. MaxClock : AcceptNumeric(j, t)

SpecHome == InitHome /\ [][NextHome]_vars

\* ------------------------------------------- two executions of getNextQuestion
\* Two executions of getNextQuestion on one lastQuestionId, with no
\* serialization: each statement that reads or writes lastQuestionId is a step
\* of its own, and the steps of the two interleave in every order.  The locals
\* isMCQ, question / template and generated are each execution's own.

\* The executions.
Racers == 1 .. 2

\* The other execution.
Other(p) == 3 - p

\* The catalog execution p selects from.
RaceCatalog(p) == IF race[p].isMCQ THEN pool ELSE templates

\* The entry execution p has drawn.
RaceEntry(p) == RaceCatalog(p)[race[p].picked]

\* An execution between its first statement and its return.
Running(call) == call.pc \in { "draw", "test", "write", "return" }

\* The locals of p become call; the history notes whether both executions are
\* then under way.
RaceMove(p, call) ==
  /\ race' = [ race EXCEPT ![p] = call ]
  /\ raced' = [ raced EXCEPT
                  !.together = @ \/ (Running(call) /\ Running(race[Other(p)])),
                  !.stale = @ \/ (race[p].pc = "write"
                                  /\ race[Other(p)].pc = "write") ]

\* What a step of the two executions leaves alone, the clock and
\* lastQuestionId apart.
RaceFrame ==
  UNCHANGED << pool, templates, pc, args, count, i, questions, isMCQ, picked,
               rolls, sources, served, twin, calc, CardVars, HomeVars,
               AccountVars >>

\* const isMCQ = Math.random() < 0.6
RaceChoose(p, u) ==
  /\ race[p].pc = "choose"
  /\ RaceMove(p, [ race[p] EXCEPT !.isMCQ = IsMCQDraw(u), !.pc = "draw" ])
  /\ RaceFrame
  /\ UNCHANGED << lastQuestionId, now >>

\* The body of the do-while: question = MCQ_POOL[randInt(0, MCQ_POOL.length - 1)],
\* template = NUMERIC_TEMPLATES[randInt(0, NUMERIC_TEMPLATES.length - 1)]
RaceDraw(p, u) ==
  /\ race[p].pc = "draw"
  /\ RaceMove(p, [ race[p] EXCEPT
                     !.picked = randInt(0, Len(RaceCatalog(p)) - 1, u) + 1,
                     !.pc = "test" ])
  /\ RaceFrame
  /\ UNCHANGED << lastQuestionId, now >>

\* The test of the do-while reads lastQuestionId.
RaceTest(p) ==
  /\ race[p].pc = "test"
  /\ RaceMove(p, [ race[p] EXCEPT
                     !.pc = IF RepeatTest(RaceEntry(p).id, lastQuestionId,
                                          Len(RaceCatalog(p)))
                            THEN "draw" ELSE "write" ])
  /\ RaceFrame
  /\ UNCHANGED << lastQuestionId, now >>

\* Mutant: the assignment is lost.
Written_Lost(current, id) == current

\* lastQuestionId = question.id, lastQuestionId = template.id
Written(current, id) == id

\* What execution p serves, were the clock to read t.
RaceServed(p, j, t) ==
  IF race[p].isMCQ
  THEN ServeMCQ(RaceEntry(p))
  ELSE ServeNumeric(RaceEntry(p), RaceEntry(p).generator[j], t)

\* const generated = template.generator() on the draws GenDraws[j] (numeric
\* branch), then the write of lastQuestionId.
RaceWrite(p, j) ==
  /\ race[p].pc = "write"
  /\ lastQuestionId' = Written(lastQuestionId, RaceServed(p, j, now).tracked)
  /\ RaceMove(p, [ race[p] EXCEPT
                     !.generated = IF race[p].isMCQ THEN 0 ELSE j,
                     !.pc = "return" ])
  /\ RaceFrame
  /\ UNCHANGED now

\* return { ...question }, and the numeric return, its id stamped with
\* Date.now(), which reads t.
RaceReturn(p, t) ==
  /\ race[p].pc = "return"
  /\ t >= now
  /\ race[p].isMCQ => t = now
  /\ LET out == RaceServed(p, IF race[p].isMCQ THEN 1 ELSE race[p].generated, t)
     IN  RaceMove(p, [ race[p] EXCEPT !.result = out.result,
                                      !.source = out.source, !.pc = "done" ])
  /\ now' = t
  /\ RaceFrame
  /\ UNCHANGED lastQuestionId

\* A draw of an entry other than the one lastQuestionId names.
FreshDraw(p) ==
  \E u \in Draws :
    /\ RaceDraw(p, u)
    /\ ~RepeatTest(RaceCatalog(p)[race'[p].picked].id, lastQuestionId,
                   Len(RaceCatalog(p)))

\* Any step of execution p.
RaceStep(p) ==
  \/ \E u \in Draws : RaceChoose(p, u)
  \/ \E u \in Draws : RaceDraw(p, u)
  \/ RaceTest(p)
  \/ \E j \in 1 .. Len(GenDraws) : RaceWrite(p, j)
  \/ \E t \in 0 .. MaxClock : RaceReturn(p, t)

\* Both executions are entered on the shipped catalogs; lastQuestionId is null
\* or names an entry, as earlier calls leave it.
InitRace ==
  /\ pool = MCQ_POOL
  /\ templates = NUMERIC_TEMPLATES
  /\ \/ lastQuestionId = Null
     \/ \E k \in 1 .. Len(MCQ_POOL) : lastQuestionId = MCQ_POOL[k].id
     \/ \E k \in 1 .. Len(NUMERIC_TEMPLATES) :
          lastQuestionId = NUMERIC_TEMPLATES[k].id
  /\ now = 0
  /\ pc = "idle"
  /\ args = << >>
  /\ count = 0
  /\ i = 0
  /\ questions = << >>
  /\ isMCQ = FALSE
  /\ picked = 0
  /\ rolls = 0
  /\ sources = << >>
  /\ served = << >>
  /\ twin = TwinOff
  /\ calc = CalcIdle
  /\ NoCard
  /\ NoHome
  /\ race = [ p \in Racers |-> [ NotCalled EXCEPT !.pc = "choose" ] ]
  /\ raced = [ together |-> FALSE, stale |-> FALSE ]
  /\ AccountInitial

NextRace ==
  \/ \E p \in Racers : \E u \in Draws : RaceChoose(p, u)
  \/ \E p \in Racers : \E u \in Draws : RaceDraw(p, u)
  \/ \E p \in Racers : RaceTest(p)
  \/ \E p \in Racers : \E j \in 1 .. Len(GenDraws) : RaceWrite(p, j)
  \/ \E p \in Racers : \E t \in 0 .. MaxClock : RaceReturn(p, t)

\* Each execution keeps running, and Math.random() does not return the draws
\* of the entry to avoid for ever.
SpecRace ==
  /\ InitRace
  /\ [][NextRace]_vars
  /\ \A p \in Racers : WF_vars(RaceStep(p)) /\ SF_vars(FreshDraw(p))

\* --------------------------------------------------------------- account screen
\* AccountScreen keeps the experience level in local state and edits it through
\* a copy.  A press is handled on the state the screen was last rendered with,
\* and only the controls that render offers can be pressed.

\* The most presses followed.
MaxPresses == 10

\* const EXPERIENCE_LEVELS
EXPERIENCE_LEVELS == << "beginner", "intermediate", "advanced" >>

\* The history, one press later.
Pressed(did, selected) ==
  [ did |-> did, selected |-> selected, presses |-> session.presses + 1 ]

\* What a press on the account screen leaves alone.
AccountFrame ==
  UNCHANGED << ServiceVars, calc, CardVars, HomeVars, RaceVars >>

\* Edit, rendered while !isEditing: setEditLevel(experienceLevel);
\* setIsEditing(true)
PressEdit ==
  /\ ~isEditing
  /\ session.presses < MaxPresses
  /\ editLevel' = experienceLevel
  /\ isEditing' = TRUE
  /\ session' = Pressed("edit", "none")
  /\ UNCHANGED experienceLevel
  /\ AccountFrame

\* A level of the selector, rendered while isEditing: setEditLevel(level)
PressLevel(level) ==
  /\ isEditing
  /\ session.presses < MaxPresses
  /\ editLevel' = level
  /\ session' = Pressed("select", level)
  /\ UNCHANGED << experienceLevel, isEditing >>
  /\ AccountFrame

\* handleSave, rendered while isEditing: setExperienceLevel(editLevel);
\* setIsEditing(false)
handleSave ==
  /\ isEditing
  /\ session.presses < MaxPresses
  /\ experienceLevel' = editLevel
  /\ isEditing' = FALSE
  /\ session' = Pressed("save", session.selected)
  /\ UNCHANGED editLevel
  /\ AccountFrame

\* Mutant: Cancel leaves the edited copy as it is.
Reverted_Kept(level, edited) == edited

\* setEditLevel(experienceLevel) of handleCancel
Reverted(level, edited) == level

\* handleCancel, rendered while isEditing: setEditLevel(experienceLevel);
\* setIsEditing(false)
handleCancel ==
  /\ isEditing
  /\ session.presses < MaxPresses
  /\ editLevel' = Reverted(experienceLevel, editLevel)
  /\ isEditing' = FALSE
  /\ session' = Pressed("cancel", session.selected)
  /\ UNCHANGED experienceLevel
  /\ AccountFrame

InitAccount ==
  /\ pool = MCQ_POOL
  /\ templates = NUMERIC_TEMPLATES
  /\ lastQuestionId = Null
  /\ now = 0
  /\ pc = "idle"
  /\ args = << >>
  /\ count = 0
  /\ i = 0
  /\ questions = << >>
  /\ isMCQ = FALSE
  /\ picked = 0
  /\ rolls = 0
  /\ sources = << >>
  /\ served = << >>
  /\ twin = TwinOff
  /\ calc = CalcIdle
  /\ NoCard
  /\ NoHome
  /\ NoRace
  /\ AccountInitial

NextAccount ==
  \/ PressEdit
  \/ \E k \in 1 .. Len(EXPERIENCE_LEVELS) : PressLevel(EXPERIENCE_LEVELS[k])
  \/ handleSave
  \/ handleCancel

SpecAccount == InitAccount /\ [][NextAccount]_vars

\* ===================================================================== claims
\* Both catalogs hold more than one entry / exactly one entry.
ManyEntries == Len(pool) > 1 /\ Len(templates) > 1
SingleEntries == Len(pool) = 1 /\ Len(templates) = 1

\* The ids of a catalog's entries.
IdsOf(catalog) == { catalog[k].id : k \in 1 .. Len(catalog) }

\* C1: when both catalogs hold more than one entry, two directly consecutive
\* results of getNextQuestion never come from the same pool entry or template:
\* neither two neighbours of a batch, nor the two latest results served (which
\* may lie in different batches).
C1_NoImmediateRepeat ==
  ManyEntries =>
    /\ \A k \in 1 .. Len(sources) - 1 : sources[k] # sources[k + 1]
    /\ Len(served) = 2 => served[1] # served[2]

\* A draw repeated the id in lastQuestionId and the loop rolled again.
C1_Witness ==
  ManyEntries /\ pc = "accept" /\ rolls >= 2 /\ lastQuestionId # Null

\* C2: getQuestionBatch(n), n >= 0, returns exactly n questions, the k-th being
\* the result of the k-th getNextQuestion call; n = 0 returns the empty sequence;
\* the call without argument returns 10.
C2_BatchLength ==
  /\ Len(questions) = Len(sources)
  /\ \A k \in 1 .. Len(questions) :
        IF questions[k].type = "mcq"
        THEN questions[k].id = sources[k]
        ELSE \E t \in 0 .. MaxClock :
               questions[k].id = sources[k] \o "-" \o ToString(t)
  /\ pc = "done" =>
        /\ args = << >> => Len(questions) = 10
        /\ (args # << >> /\ args[1] >= 0) => Len(questions) = args[1]

\* A default-count batch has returned.
C2_Witness == pc = "done" /\ args = << >> /\ Len(questions) = 10

\* C3: with single-entry catalogs the do-while body of getNextQuestion runs
\* exactly once in every call, whatever lastQuestionId holds: the loop is never
\* re-entered, and the entry is accepted after one draw.
C3_SingleEntryOneRoll ==
  SingleEntries =>
    /\ pc = "roll" => rolls = 0
    /\ pc = "accept" => rolls = 1

\* The single entry is accepted although lastQuestionId holds its id.
C3_Witness ==
  SingleEntries /\ pc = "accept" /\ Catalog[picked].id = lastQuestionId

\* C4, on the shipped catalogs: no two numeric questions of one batch share an id.
C4_UniqueNumericIds ==
  ManyEntries =>
    \A a, b \in 1 .. Len(questions) :
      (a # b /\ questions[a].type = "numeric" /\ questions[b].type = "numeric")
        => questions[a].id # questions[b].id

\* C5: lastQuestionId is null until the first selection, and from then on holds
\* the id of the pool entry or template behind the latest result (for a numeric
\* question the template id, which differs from the id of the question); once
\* set it is never null again.
C5_LastQuestionId ==
  /\ served = << >> => lastQuestionId = Null
  /\ served # << >> =>
        /\ lastQuestionId = served[Len(served)]
        /\ lastQuestionId \in IdsOf(pool) \cup IdsOf(templates)
  /\ \A k \in 1 .. Len(questions) :
        questions[k].type = "numeric" => questions[k].id # sources[k]
  /\ (pc \in { "loop", "done" } /\ questions # << >>) =>
        lastQuestionId = sources[Len(sources)]

\* A numeric question was the latest result.
C5_Witness ==
  /\ pc = "loop"
  /\ questions # << >>
  /\ questions[Len(questions)].type = "numeric"
  /\ lastQuestionId \in IdsOf(templates)

\* The generators of the loaded templates set tolerance themselves.
GeneratorsSetTolerance == "tolerance" \in DOMAIN templates[1].generator[1]

\* C6: every numeric question returned has a tolerance that is a number >= 0:
\* exactly 1 for the Rule of 72 template (which sets it), and 1% of correctAnswer
\* otherwise, also when the generator leaves tolerance out.
C6_Tolerance ==
  \A k \in 1 .. Len(questions) :
    questions[k].type = "numeric" =>
      /\ "tolerance" \in DOMAIN questions[k]
      /\ questions[k].tolerance >= 0
      /\ IF sources[k] = "num-rule-of-72" /\ GeneratorsSetTolerance
         THEN questions[k].tolerance = FixedScale
         ELSE questions[k].tolerance * 100 = questions[k].correctAnswer

\* A question of a generator that left tolerance out was returned with one.
C6_Witness ==
  /\ ~GeneratorsSetTolerance
  /\ pc = "done"
  /\ Len(questions) = 1
  /\ questions[1].type = "numeric"
  /\ questions[1].correctAnswer > 1000 * FixedScale
  /\ questions[1].tolerance * 100 = questions[1].correctAnswer

\* C7: every MCQ question returned equals an entry of the pool field for field,
\* and its correctIndex is a 0-based index into its options.
C7_MCQUnmodified ==
  \A k \in 1 .. Len(questions) :
    questions[k].type = "mcq" =>
      /\ \E e \in 1 .. Len(pool) : questions[k] = pool[e]
      /\ 0 <= questions[k].correctIndex
      /\ questions[k].correctIndex < Len(questions[k].options)

\* The last entry of the shipped pool was returned.
C7_Witness ==
  /\ Len(pool) > 1
  /\ \E k \in 1 .. Len(questions) : questions[k] = pool[Len(pool)]

C10_CatalogsUnchanged == [][pool' = pool /\ templates' = templates]_vars

\* Selections were made from the shipped catalogs and a batch returned.
C10_Witness ==
  /\ pool = MCQ_POOL
  /\ pc = "done"
  /\ Len(questions) >= 2
  /\ lastQuestionId # Null

\* The content of a returned question: all of it but the clock stamp of a
\* numeric id, in whose place stands the id of the template.
Content(q, source) ==
  IF q.type = "numeric" THEN [ q EXCEPT !.id = source ] ELSE q

\* The contents of a sequence of returned questions.
Contents(list, from) ==
  [ k \in 1 .. Len(list) |-> Content(list[k], from[k]) ]

\* C9: two executions of getQuestionBatch that start on the same lastQuestionId
\* and receive the same draws are at every step at the same statement, with the
\* same sources, question contents, answers and tolerances returned so far and
\* the same lastQuestionId, whatever was served before the one and whatever the
\* clocks read.
C9_SameDrawsSameBatch ==
  twin.pc # "off" =>
    /\ twin.pc = pc
    /\ twin.i = i
    /\ twin.lastQuestionId = lastQuestionId
    /\ twin.sources = sources
    /\ Len(twin.questions) = Len(questions)
    /\ Contents(twin.questions, twin.sources) = Contents(questions, sources)

\* Both executions have returned, a numeric question last, stamped by different
\* clock readings, the first execution having served a question before the call.
C9_Witness ==
  /\ twin.pc = "done"
  /\ pc = "done"
  /\ Len(served) = 2
  /\ Len(questions) = count
  /\ count > 0
  /\ questions[count].type = "numeric"
  /\ twin.questions[count].id # questions[count].id
  /\ twin.questions[count].correctAnswer = questions[count].correctAnswer

\* A generator() call of the template id has returned.
Generated(id) == calc.stage = "done" /\ calc.id = id

\* principal * (1 + rate / 100)^years, exactly.
CompoundExact(principal, rate, years) ==
  Rat(BigMulTimes(BigFromNat(principal), 100 + rate, years), 100, years, 1, 0)

\* C11: for every principal, rate and years the compound-interest generator
\* draws, correctAnswer is principal * (1 + rate/100)^years, exact, rounded once
\* to 2 decimals; 1000 at 10% over 2 years gives 1210.00.
C11_CompoundAnswer ==
  Generated("num-compound-interest") =>
    /\ calc.correctAnswer =
         RoundedExactly(CompoundExact(calc.amount, calc.rate, calc.years))
    /\ (calc.amount = 1000 /\ calc.rate = 10 /\ calc.years = 2)
         => calc.correctAnswer = 1210 * FixedScale

\* 4000 at 5% over 4 years: exactly 4862.025, a half of a cent, reported as
\* 4862.03.
C11_Witness ==
  /\ Generated("num-compound-interest")
  /\ calc.amount = 4000 /\ calc.rate = 5 /\ calc.years = 4
  /\ calc.correctAnswer = 486203 * (FixedScale \div 100)

\* C12: for every principal, rate and years the simple-interest generator
\* draws, correctAnswer is principal + principal * (rate/100) * years, exact,
\* which is also that total rounded once to 2 decimals; 1000 at 5% over 3 years
\* gives 1150.00.
C12_SimpleAnswer ==
  Generated("num-simple-interest") =>
    /\ (calc.amount * calc.rate * calc.years) % 100 = 0
    /\ calc.correctAnswer =
         (calc.amount + (calc.amount * calc.rate * calc.years) \div 100)
           * FixedScale
    /\ calc.correctAnswer =
         RoundedExactly(Rat(BigFromNat(calc.amount * 100
                                         + calc.amount * calc.rate * calc.years),
                            100, 1, 1, 0))
    /\ (calc.amount = 1000 /\ calc.rate = 5 /\ calc.years = 3)
         => calc.correctAnswer = 1150 * FixedScale

\* 1000 at 5% over 3 years, reported as 1150.00.
C12_Witness ==
  /\ Generated("num-simple-interest")
  /\ calc.amount = 1000 /\ calc.rate = 5 /\ calc.years = 3
  /\ calc.correctAnswer = 1150 * FixedScale

\* 72 / rate rounded to the nearest whole number, exactly.
NearestToRuleOf72(rate) == (2 * 72 + rate) \div (2 * rate)

\* C13: for every rate the Rule of 72 generator draws, correctAnswer is 72 / rate
\* rounded to the nearest whole number, it is whole, and it is what Math.round
\* gives on the quotient that was not first rounded to 2 decimals; a rate of 8
\* gives 9.
C13_RuleOf72Answer ==
  /\ Generated("num-rule-of-72") =>
       /\ calc.correctAnswer = NearestToRuleOf72(calc.rate) * FixedScale
       /\ calc.correctAnswer % FixedScale = 0
       /\ calc.rate = 8 => calc.correctAnswer = 9 * FixedScale
  /\ (calc.stage = "factor" /\ calc.id = "num-rule-of-72") =>
       MathRoundDouble(calc.factor) = NearestToRuleOf72(calc.rate)

\* A rate of 11: 72 / 11 = 6.5454..., 6.55 to 2 decimals, reported as 7.
C13_Witness ==
  /\ Generated("num-rule-of-72")
  /\ calc.rate = 11
  /\ calc.correctAnswer = 7 * FixedScale

\* monthly * ((1 + r)^n - 1) / r with r = rate / 1200, exactly:
\* monthly * 1200 * ((1200 + rate)^n - 1200^n) / (1200^n * rate).
FutureValueExact(monthly, rate, n) ==
  LET up == BigPowSmall(1200 + rate, n)
      base == BigPowSmall(1200, n)
      grown == Force(up, Force(base, BigSub(up, base)))
      num == Force(grown, BigMulSmall(BigMulSmall(grown, 1200), monthly))
  IN  Force(num, Rat(num, 1200, n, rate, 1))

\* C14: for every monthly, rate and years the future-value generator draws,
\* correctAnswer is monthly * ((1 + r)^n - 1) / r, exact, rounded once to 2
\* decimals, with r = rate/100/12 and n = years * 12; the rate drawn is above 0,
\* so that r divides; the formula gives 1268.25 on 100 a month at 12% over 1 year.
C14_FutureValueAnswer ==
  /\ Generated("num-future-value-annuity") =>
       calc.correctAnswer =
         RoundedExactly(FutureValueExact(calc.amount, calc.rate, calc.years * 12))
  /\ (calc.stage # "idle" /\ calc.id = "num-future-value-annuity") =>
       calc.rate > 0
  /\ calc.stage = "idle" =>
       RoundedExactly(FutureValueExact(100, 12, 12))
         = 126825 * (FixedScale \div 100)

\* 800 a month at 8% over 5 years, reported as 58781.48.
C14_Witness ==
  /\ Generated("num-future-value-annuity")
  /\ calc.amount = 800 /\ calc.rate = 8 /\ calc.years = 5
  /\ calc.correctAnswer = 5878148 * (FixedScale \div 100)

\* The mantissa of the double x at the exponent e <= x.e: x = ScaledTo(x, e) * 2^e.
ScaledTo(x, e) == BigShl(x.m, x.e - e)

\* The least exponent of the doubles involved in a grading.
LeastExponent(userAnswer, correctAnswer, tolerance) ==
  Lesser(Lesser(correctAnswer.e, tolerance.e),
         IF userAnswer.sign = 0 THEN correctAnswer.e ELSE userAnswer.abs.e)

\* |a - b| of naturals.
BigDistance(a, b) == IF BigCmp(a, b) >= 0 THEN BigSub(a, b) ELSE BigSub(b, a)

\* -1, 0, 1 as the distance |userAnswer - correctAnswer| of the two numbers,
\* without rounding, is below, at, above the tolerance; e is a common exponent.
DistanceAt(userAnswer, correctAnswer, tolerance, e) ==
  BigCmp(IF userAnswer.sign = 0 THEN ScaledTo(correctAnswer, e)
         ELSE IF userAnswer.sign < 0
           THEN BigAdd(ScaledTo(userAnswer.abs, e), ScaledTo(correctAnswer, e))
         ELSE BigDistance(ScaledTo(userAnswer.abs, e), ScaledTo(correctAnswer, e)),
         ScaledTo(tolerance, e))

\* The number in the answer field of the card, and how far it is from the answer.
Typed == parseFloat(Cleaned(inputValue))
TypedDistance ==
  The({ DistanceAt(u, shown.correctAnswer, shown.tolerance,
                   LeastExponent(u, shown.correctAnswer, shown.tolerance)) :
        u \in { Typed } })

\* C15: a numeric card that gave its verdict shows Correct exactly when the
\* number parsed from the input differs from correctAnswer by at most tolerance,
\* a difference equal to tolerance included; an answered MCQ card shows Correct
\* exactly when the selected index is correctIndex, that is, when the option
\* selected is the correct option.
C15_Grading ==
  /\ (shown.type = "numeric" /\ isSubmitted) =>
       /\ isCorrect <=> TypedDistance <= 0
       /\ NumericFeedback = IF TypedDistance <= 0 THEN "Correct" ELSE "Incorrect"
  /\ (shown.type = "mcq" /\ isAnswered) =>
       /\ MCQFeedback = IF selectedIndex = shown.correctIndex
                        THEN "Correct" ELSE "Incorrect"
       /\ MCQFeedback = "Correct" <=>
            shown.options[selectedIndex + 1] = shown.options[shown.correctIndex + 1]

\* 1111 typed on the card whose answer is 1100 with tolerance 11: the
\* difference equals the tolerance, and the verdict is Correct.
C15_Witness ==
  /\ shown.type = "numeric"
  /\ isSubmitted
  /\ inputValue = << "1", "1", "1", "1" >>
  /\ TypedDistance = 0
  /\ isCorrect

\* The whole of text is a decimal literal.
NumericText(text, lit) ==
  /\ lit.whole + lit.places > 0
  /\ lit.signs + lit.whole + (IF lit.point THEN 1 + lit.places ELSE 0) = Len(text)

\* The input of the card, cleaned of $ , and white space, writes a number.
TypedNumeric ==
  The({ NumericText(text,
                    The({ Literal(text, signs, DigitRun(text, signs + 1)) :
                          signs \in { IF text # << >> /\ text[1] \in { "-", "+" }
                                      THEN 1 ELSE 0 } })) :
        text \in { Cleaned(inputValue) } })

\* C16: a numeric card whose input is empty or does not write a number has
\* given no verdict: isSubmitted is false and isCorrect is as it was mounted.
C16_NoVerdictOnNonNumeric ==
  (shown.type = "numeric" /\ ~TypedNumeric) => (~isSubmitted /\ ~isCorrect)

\* C18: once isSubmitted is true, no step changes isSubmitted or isCorrect, and
\* no further verdict is given: a card gives one verdict at most.
C18_FirstVerdictFinal ==
  [][ /\ isSubmitted =>
           /\ isSubmitted'
           /\ isCorrect' = isCorrect
           /\ calls'.verdicts = calls.verdicts
      /\ calls'.verdicts <= 1 ]_vars

\* handleSubmit was called again on a card that had given its verdict.
C18_Witness ==
  /\ shown.type = "numeric"
  /\ isSubmitted
  /\ calls.verdicts = 1
  /\ calls.ignored >= 2

\* After the answer: the option at correctIndex, and no other, is styled
\* correct; the selected option, and no other, may be styled incorrect, and is
\* exactly when it is not the option at correctIndex.
StyledAsAnswered ==
  isAnswered =>
    /\ \A index \in 0 .. Len(shown.options) - 1 :
         /\ getOptionStyle(index) = "optionCorrect" <=> index = shown.correctIndex
         /\ getOptionStyle(index) = "optionIncorrect" => index = selectedIndex
    /\ getOptionStyle(selectedIndex) = "optionIncorrect" <=>
         selectedIndex # shown.correctIndex

\* C19: once selectedIndex is not null no step changes it, and the options of
\* an answered card are styled as above.
C19_SingleAnswer ==
  /\ [](shown.type = "mcq" => StyledAsAnswered)
  /\ [][isAnswered => selectedIndex' = selectedIndex]_vars

\* A wrong option was selected, and handleSelect was called again.
C19_Witness ==
  /\ shown.type = "mcq"
  /\ isAnswered
  /\ selectedIndex # shown.correctIndex
  /\ getOptionStyle(selectedIndex) = "optionIncorrect"
  /\ calls.select >= 2

\* The home screen is mounted and neither its initializer nor a handler is
\* executing.
HomeAtRest == handler = "idle"

\* The home screen shows a feed.
HomeMounted == handler \in { "idle", "loading" }

\* C20: the feed starts as one batch of BATCH_SIZE questions; handling an
\* end-reached event puts exactly one batch of BATCH_SIZE questions after the
\* items shown, which keep their places and values, and no other step changes
\* the feed; isLoadingMore is false whenever no handler executes, so that no
\* event is skipped; and the feed holds BATCH_SIZE * (1 + events handled) items.
C20_FeedGrowsByBatches ==
  /\ [](/\ HomeAtRest => ~isLoadingMore
        /\ handled.skipped = 0
        /\ HomeMounted => Len(feed) = BATCH_SIZE * (1 + handled.loaded)
        /\ ~HomeMounted => (feed = << >> /\ handled.loaded = 0))
  /\ [][/\ HomeMounted =>
             /\ SubSeq(feed', 1, Len(feed)) = feed
             /\ Len(feed') = Len(feed)
                             + BATCH_SIZE * (handled'.loaded - handled.loaded)
             /\ handled'.loaded - handled.loaded \in { 0, 1 }
        /\ (handler = "mounting" /\ handler' = "idle") =>
             (Len(feed') = BATCH_SIZE /\ handled'.loaded = 0)
       ]_vars

\* MaxEvents events have been handled: the feed holds a batch for each and the
\* first, the second
\* differing from the first, and a numeric question among the first ten items.
C20_Witness ==
  /\ HomeAtRest
  /\ handled.loaded = MaxEvents
  /\ Len(feed) = (1 + MaxEvents) * BATCH_SIZE
  /\ SubSeq(feed, 1, BATCH_SIZE) # SubSeq(feed, BATCH_SIZE + 1, 2 * BATCH_SIZE)
  /\ \E k \in 1 .. BATCH_SIZE : feed[k].type = "numeric"

\* A value of the type ResolvedQuestion that the catalogs can yield: an MCQ
\* entry as the pool holds it, its correctIndex naming one of its options, or a
\* numeric question carrying what one generator() call of a template returned
\* and an id made of the template's id and a clock reading.
WellFormed(q) ==
  \/ /\ DOMAIN q = { "id", "type", "question", "options", "correctIndex" }
     /\ q.type = "mcq"
     /\ q.correctIndex \in 0 .. Len(q.options) - 1
     /\ \E k \in 1 .. Len(pool) : q = pool[k]
  \/ /\ DOMAIN q = { "id", "type", "questionText", "correctAnswer", "tolerance" }
     /\ q.type = "numeric"
     /\ \E k \in 1 .. Len(templates) :
          /\ \E t \in 0 .. MaxClock :
               q.id = templates[k].id \o "-" \o ToString(t)
          /\ \E j \in 1 .. Len(templates[k].generator) :
               /\ q.questionText = templates[k].generator[j].questionText
               /\ q.correctAnswer = templates[k].generator[j].correctAnswer
               /\ q.tolerance = templates[k].generator[j].tolerance

\* Both executions have returned.
BothReturned == \A p \in Racers : race[p].pc = "done"

\* An execution has made its write of lastQuestionId.
HasWritten(p) == race[p].pc \in { "return", "done" }

\* C17: when two executions of getNextQuestion interleave with no
\* serialization on lastQuestionId, every index used lies in its catalog, every
\* question returned is well-formed, lastQuestionId is null or names an entry
\* and, once an execution has written it, names the entry of an execution that
\* has; the two may serve the same entry only if one wrote lastQuestionId
\* between the other's passing test and its write, which needs both to be
\* under way at once, so that serialized calls never repeat; and both
\* executions return.
C17_RaceMissesOnlyTheRepeatCheck ==
  /\ [](/\ \A p \in Racers :
             /\ race[p].pc \in { "test", "write", "return", "done" } =>
                  race[p].picked \in 1 .. Len(RaceCatalog(p))
             /\ race[p].pc = "done" => WellFormed(race[p].result)
        /\ lastQuestionId \in { Null } \cup IdsOf(pool) \cup IdsOf(templates)
        /\ (\E p \in Racers : HasWritten(p)) =>
             (\E p \in Racers :
                HasWritten(p) /\ lastQuestionId = RaceEntry(p).id)
        /\ (BothReturned /\ race[1].source = race[2].source) => raced.stale
        /\ raced.stale => raced.together)
  /\ <>BothReturned

\* The two executions interleaved and both served the same pool entry: each
\* returned a well-formed copy of it, and lastQuestionId names it.
C17_Witness ==
  /\ BothReturned
  /\ raced.stale
  /\ race[1].source = race[2].source
  /\ race[1].source = lastQuestionId
  /\ race[1].source \in IdsOf(pool)
  /\ race[1].result = race[2].result
  /\ WellFormed(race[1].result)

\* Two serialized executions: the second started after the first returned, and
\* they served different entries.
C17_SerializedWitness ==
  /\ BothReturned
  /\ ~raced.together
  /\ race[1].source # race[2].source

\* The correctIndex of an MCQ question lies in [0, len(options) - 1).
BelowLastOption(q) ==
  /\ 0 <= q.correctIndex
  /\ q.correctIndex < Len(q.options) - 1

\* C21: the correctIndex of every entry of the shipped MCQ pool lies in the
\* half-open range [0, len(options) - 1), and so does that of every entry of
\* the pool the service is loaded with and of every MCQ question it returns.
C21_CorrectIndexBelowLast ==
  /\ \A k \in 1 .. Len(MCQ_POOL) : BelowLastOption(MCQ_POOL[k])
  /\ \A k \in 1 .. Len(pool) : BelowLastOption(pool[k])
  /\ \A k \in 1 .. Len(questions) :
       questions[k].type = "mcq" => BelowLastOption(questions[k])

\* The shipped pool is loaded and a question was returned whose correctIndex
\* is the largest the range allows, the last option but one.
C21_Witness ==
  /\ pool = MCQ_POOL
  /\ \E k \in 1 .. Len(questions) :
       /\ questions[k].type = "mcq"
       /\ questions[k].correctIndex = Len(questions[k].options) - 2

\* A dollar amount below one million written with thousands separators.
Grouped(n) ==
  IF n < 1000 THEN ToString(n)
  ELSE ToString(n \div 1000) \o ","
         \o (IF n % 1000 < 10 THEN "00" ELSE IF n % 1000 < 100 THEN "0" ELSE "")
         \o ToString(n % 1000)

\* The question text of the template id on the draws d, its dollar amount
\* written with thousands separators.
GroupedText(id, d) ==
  CASE id = "num-compound-interest" ->
         "You invest $" \o Grouped(randInt(1, 50, d[1]) * 1000) \o " at "
           \o ToString(randInt(2, 12, d[2]))
           \o "% annual compound interest. How much will you have after "
           \o ToString(randInt(1, 10, d[3])) \o " "
           \o YearWord(randInt(1, 10, d[3])) \o "?"
    [] id = "num-simple-interest" ->
         "You deposit $" \o Grouped(randInt(1, 20, d[1]) * 1000)
           \o " in an account earning " \o ToString(randInt(3, 10, d[2]))
           \o "% simple interest per year. What is the total amount after "
           \o ToString(randInt(1, 5, d[3])) \o " "
           \o YearWord(randInt(1, 5, d[3])) \o "?"
    [] id = "num-rule-of-72" ->
         "Using the Rule of 72, approximately how many years will it take to double your money at a "
           \o ToString(randInt(2, 12, d[1]))
           \o "% annual return? (Round to the nearest whole number)"
    [] id = "num-future-value-annuity" ->
         "You save $" \o Grouped(randInt(1, 10, d[1]) * 100) \o " per month for "
           \o ToString(randInt(2, 10, d[3])) \o " years at "
           \o ToString(randInt(4, 10, d[2]))
           \o "% annual interest (compounded monthly). What is the total future value?"

\* C22 as claimed: the text of every numeric question returned is the text of
\* its template on some draws with each dollar amount written with thousands
\* separators, the monthly amount of the future-value template included.
C22_AmountsGrouped ==
  \A k \in 1 .. Len(questions) :
    questions[k].type = "numeric" =>
      \E j \in 1 .. Len(GridDraws) :
        questions[k].questionText = GroupedText(sources[k], GridDraws[j])

\* The category of the previous call, read off the entry it served.
PreviousWasMCQ == served[Len(served)] \in IdsOf(pool)

\* The call under way is the first, or its category is not that of the
\* previous call.
CategoryChanged == served = << >> \/ PreviousWasMCQ # isMCQ

\* C23: the ids of the pool entries and of the templates loaded (the shipped
\* catalogs, or their first entries) are disjoint; in a
\* call that is the first, or whose category differs from that of the previous
\* call, the first draw is accepted and the loop body runs once; the loop
\* rolls again only in a call of the same category as the previous one.
C23_RerollOnlyInSameCategory ==
  /\ IdsOf(pool) \cap IdsOf(templates) = { }
  /\ (pc \in { "roll", "accept" } /\ CategoryChanged) =>
       /\ pc = "roll" => rolls = 0
       /\ pc = "accept" => rolls = 1
  /\ (pc = "roll" /\ rolls >= 1) \/ (pc = "accept" /\ rolls >= 2) =>
       (served # << >> /\ PreviousWasMCQ = isMCQ)

\* After a pool entry was served, a numeric call accepted a template on its
\* first draw.
C23_Witness ==
  /\ ManyEntries
  /\ pc = "accept"
  /\ ~isMCQ
  /\ served # << >>
  /\ lastQuestionId \in IdsOf(pool)
  /\ rolls = 1

\* The pool entry or template a feed item derives from: an MCQ item carries
\* the id of its entry, a numeric one the id of its template and a clock
\* reading.
FeedSource(q) ==
  IF q.type = "mcq" THEN q.id
  ELSE CHOOSE id \in IdsOf(templates) :
         \E t \in 0 .. MaxClock : q.id = id \o "-" \o ToString(t)

\* The feed, followed by the questions of the batch the initializer or the
\* handler is loading.
FeedAndLoading ==
  feed \o (IF handler \in { "mounting", "loading" } THEN questions ELSE << >>)

\* C24: with more than one entry in each catalog, no two adjacent items of the
\* feed derive from the same pool entry or template, the last item of a batch
\* and the first of the next included; the same holds of the feed followed by
\* the batch being loaded.
C24_NoRepeatAcrossBatches ==
  ManyEntries =>
    \A k \in 1 .. Len(FeedAndLoading) - 1 :
      FeedSource(FeedAndLoading[k]) # FeedSource(FeedAndLoading[k + 1])

\* A batch ended with a numeric question and the next began with one, of
\* another template.
C24_Witness ==
  /\ ManyEntries
  /\ handler = "idle"
  /\ handled.loaded >= 1
  /\ feed[BATCH_SIZE].type = "numeric"
  /\ feed[BATCH_SIZE + 1].type = "numeric"
  /\ FeedSource(feed[BATCH_SIZE]) # FeedSource(feed[BATCH_SIZE + 1])

\* A press was handled in the step.
PressHandled == session'.presses = session.presses + 1

\* C25: on the account screen, whenever isEditing is false editLevel equals
\* experienceLevel; Cancel leaves experienceLevel as it was; Save sets it to
\* the level selected last since Edit was pressed (to what it was, if none
\* was); selecting a level changes editLevel only; and Edit starts from
\* experienceLevel.
C25_EditSession ==
  /\ [](~isEditing => editLevel = experienceLevel)
  /\ [][PressHandled =>
          /\ session'.did = "cancel" =>
               (experienceLevel' = experienceLevel /\ ~isEditing')
          /\ session'.did = "save" =>
               /\ ~isEditing'
               /\ experienceLevel' = IF session.selected = "none"
                                     THEN experienceLevel
                                     ELSE session.selected
          /\ session'.did = "select" =>
               /\ experienceLevel' = experienceLevel
               /\ isEditing' = isEditing
               /\ editLevel' = session'.selected
          /\ session'.did = "edit" =>
               /\ experienceLevel' = experienceLevel
               /\ isEditing'
               /\ editLevel' = experienceLevel
       ]_vars

\* A level was saved, then another selected and cancelled: the saved one
\* stands, and the edited copy is back to it.
C25_Witness ==
  /\ session.did = "cancel"
  /\ session.selected = "advanced"
  /\ experienceLevel = "intermediate"
  /\ editLevel = "intermediate"
  /\ ~isEditing

====
